---- MODULE Spec2Model ----
(***************************************************************************)
(* Entwine Builder (src/entwine/tree/sleepy-tree.cpp, second translation   *)
(* unit): insert(path), the per-file task run on the work pool,            *)
(* insert(view), join and save, over a Registry / Clipper / Manifest /     *)
(* Pool whose code is outside src/ and is modelled from the design text.   *)
(* Points are integer triples; z is kept in half units so that floor and   *)
(* ceil are not the identity.                                              *)
(***************************************************************************)
EXTENDS Integers, Sequences, FiniteSets, TLC

(* ------------------------------ bounds -------------------------------- *)

\* Number of Builder::insert(path) calls the caller makes.
MaxInserts == 2
\* Number of injected failures (fetch, preview or reader) per run.
MaxFaults == 1
\* Number of save() calls the caller makes.
MaxSaves == 1
\* Scaled stand-in for 65536 * 24 (points per Clipper before it is recycled).
SleepCountMulti == 2
\* Scaled stand-in for 65536 * 256 (the single-threaded value).
SleepCountSingle == 3
MaxTotalThreads == 40
MaxGoCalls == 2

(* ------------------------- Structure (tree shape) ---------------------- *)

TotalDepth == 2
BaseDepth == 1
ChunkSpan == 2

Factor(is3d) == IF is3d THEN 8 ELSE 4

RECURSIVE Pow(_, _)
Pow(b, e) == IF e = 0 THEN 1 ELSE b * Pow(b, e - 1)

\* indexBegin(d) = (B^d - 1) / (B - 1)
IndexBegin(is3d, d) == (Pow(Factor(is3d), d) - 1) \div (Factor(is3d) - 1)

NumNodes(is3d) == IndexBegin(is3d, TotalDepth)
Nodes(is3d) == 0 .. (NumNodes(is3d) - 1)
BaseEnd(is3d) == IndexBegin(is3d, BaseDepth)

\* The base chunk has id 0; a cold chunk's id is the index of its first cell.
BaseId == 0
ChunkIdOf(is3d, index) ==
    IF index < BaseEnd(is3d) THEN BaseId
    ELSE BaseEnd(is3d) + ((index - BaseEnd(is3d)) \div ChunkSpan) * ChunkSpan

ColdIds(is3d) == {ChunkIdOf(is3d, n) : n \in Nodes(is3d)} \ {BaseId}
ChunkNodes(is3d, id) == {n \in Nodes(is3d) : ChunkIdOf(is3d, n) = id}

(* ------------------------------- Bounds -------------------------------- *)

Min2(a, b) == IF a <= b THEN a ELSE b
Max2(a, b) == IF a >= b THEN a ELSE b

\* z is held in half units: an even value is a whole number.
Floor2(z) == (z \div 2) * 2
Ceil2(z) == ((z + 1) \div 2) * 2

BBox(lo, hi, is3d) == [min |-> lo, max |-> hi, is3d |-> is3d]

Contains(b, p) ==
    /\ p[1] >= b.min[1] /\ p[1] < b.max[1]
    /\ p[2] >= b.min[2] /\ p[2] < b.max[2]
    /\ (b.is3d => (p[3] >= b.min[3] /\ p[3] < b.max[3]))

Overlaps(a, b) ==
    /\ a.min[1] < b.max[1] /\ a.max[1] > b.min[1]
    /\ a.min[2] < b.max[2] /\ a.max[2] > b.min[2]
    /\ ((a.is3d /\ b.is3d) => (a.min[3] < b.max[3] /\ a.max[3] > b.min[3]))

GrowZ(b, r) ==
    [b EXCEPT !.min = <<b.min[1], b.min[2], Min2(b.min[3], r.min)>>,
              !.max = <<b.max[1], b.max[2], Max2(b.max[3], r.max)>>]

\* Range(): min starts at the largest value, max at the lowest.
ZLimit == 100
EmptyRange == [min |-> ZLimit, max |-> -ZLimit]
RangeGrow(r, z) == [min |-> Min2(r.min, z), max |-> Max2(r.max, z)]

\* The configured bounds of the build and the subset bounds of subset 1 of 4.
GlobalBounds(is3d) == BBox(<<0, 0, 0>>, <<8, 8, 8>>, is3d)
SubsetBounds(is3d) == BBox(<<0, 0, 0>>, <<4, 4, 8>>, is3d)

(* ------------------------------- Climber ------------------------------- *)

NewClimber(b) == [index |-> 0, depth |-> 0, min |-> b.min, max |-> b.max]

Mid(c, i) == (c.min[i] + c.max[i]) \div 2

Half(c, p, i) == IF p[i] >= Mid(c, i) THEN 1 ELSE 0

Slot(is3d, c, p) ==
    Half(c, p, 1) + 2 * Half(c, p, 2) + (IF is3d THEN 4 * Half(c, p, 3) ELSE 0)

ChildMin(c, p, i) == IF Half(c, p, i) = 1 THEN Mid(c, i) ELSE c.min[i]
ChildMax(c, p, i) == IF Half(c, p, i) = 1 THEN c.max[i] ELSE Mid(c, i)

Down(is3d, c, p) ==
    [index |-> IndexBegin(is3d, c.depth + 1)
                 + (c.index - IndexBegin(is3d, c.depth)) * Factor(is3d)
                 + Slot(is3d, c, p),
     depth |-> c.depth + 1,
     min |-> <<ChildMin(c, p, 1), ChildMin(c, p, 2),
               IF is3d THEN ChildMin(c, p, 3) ELSE c.min[3]>>,
     max |-> <<ChildMax(c, p, 1), ChildMax(c, p, 2),
               IF is3d THEN ChildMax(c, p, 3) ELSE c.max[3]>>]

(* ------------------------------ input files ---------------------------- *)

Paths == {"a", "b", "c", "bad"}

\* Executor::good: the reader recognises the path.
Good(path) == path # "bad"

\* The batches the reader yields for a file, each a sequence of points.
\* File a ends with a point outside subset 1. File b lies outside subset 1
\* and above z = 8: inside the bounds of a 2D build only. The points of file c
\* all lie outside the bounds, in 2D and in 3D.
FileBatches(path) ==
    CASE path = "a" -> << << <<1, 1, 1>>, <<0, 1, 3>> >>,
                          << <<1, 0, 2>>, <<5, 1, 5>> >> >>
      [] path = "b" -> << << <<5, 1, 9>>, <<6, 2, 11>> >> >>
      [] path = "c" -> << << <<9, 1, 1>>, <<1, 9, 3>> >> >>
      [] OTHER -> << >>

RECURSIVE SumLen(_)
SumLen(s) == IF s = << >> THEN 0 ELSE Len(Head(s)) + SumLen(Tail(s))

FileNumPoints(path) == SumLen(FileBatches(path))

\* Executor::preview: the header of a file, or none when it has no header.
\* The header of file c claims bounds its points do not have.
HasPreview(path) == path \in {"a", "b", "c"}
PreviewBounds(path) ==
    CASE path = "a" -> BBox(<<0, 0, 1>>, <<6, 2, 6>>, TRUE)
      [] path = "c" -> BBox(<<1, 1, 1>>, <<7, 7, 7>>, TRUE)
      [] OTHER -> BBox(<<5, 1, 9>>, <<7, 3, 12>>, TRUE)
PreviewNumPoints(path) == FileNumPoints(path)

\* The points of a file, each named by origin, batch and place in the batch.
FilePointIds(origin, path) ==
    UNION {{<<origin, b, i>> : i \in 1 .. Len(FileBatches(path)[b])} :
             b \in 1 .. Len(FileBatches(path))}

Srs(path) == IF path = "a" THEN "srs-a" ELSE "srs-b"

(* ----------------------------- thread budget --------------------------- *)

\* round(total * 0.47), at least 1.
getWorkThreads(total) == Max2((47 * total + 50) \div 100, 1)

\* std::size_t arithmetic, with the word narrowed to 16 bits.
SizeMod == Pow(2, 16)
getClipThreads(total) == Max2((total - getWorkThreads(total)) % SizeMod, 4)

TotalThreadsChoices == {1, 4}

(* -------------------------------- Manifest ----------------------------- *)

NewManifest == [paths |-> << >>, omissions |-> << >>, errors |-> {}]

InvalidOrigin == -1

SeqHas(s, x) == \E i \in 1 .. Len(s) : s[i] = x

\* addOrigin: the next origin, or invalidOrigin for a path already ingested.
OriginFor(m, path) == IF SeqHas(m.paths, path) THEN InvalidOrigin ELSE Len(m.paths)
AddOrigin(m, path) ==
    IF SeqHas(m.paths, path) THEN m ELSE [m EXCEPT !.paths = Append(@, path)]
AddOmission(m, path) == [m EXCEPT !.omissions = Append(@, path)]
AddError(m, origin) == [m EXCEPT !.errors = @ \cup {origin}]

(* --------------------------------- Stats ------------------------------- *)

NewStats == [numPoints |-> 0, numOutOfBounds |-> 0, numFallThroughs |-> 0]
StatsAddPoint(s, n) == [s EXCEPT !.numPoints = @ + n]
StatsAddOutOfBounds(s, n) == [s EXCEPT !.numOutOfBounds = @ + n]
StatsAddFallThrough(s, n) == [s EXCEPT !.numFallThroughs = @ + n]

(* --------------------------------- state ------------------------------- *)

VARIABLES
    m_bbox,          \* global bounds
    m_subBBox,       \* {} (whole build) or {subset bounds}
    m_structure,     \* [is3d, totalDepth, baseDepth, subset]
    m_schema,
    m_compress,
    m_reprojection,  \* {} (none) or {the reprojection}
    m_trustHeaders,
    m_srs,
    sleepCount,      \* the file-scope sleepCount
    totalThreads,
    m_manifest,
    m_stats,
    m_pool,          \* work pool: [queue, running]
    clipPool,        \* Registry: the number of threads of its clip pool
    wk,              \* per work thread: the per-file task it runs
    chunks,          \* Registry: cold chunk id -> [state, refs, scheduled]
    cells,           \* resident cells: node index -> point id or NoPoint
    endpoint,        \* output endpoint: [chunks, cells, meta]
    mainPc,          \* the caller's position
    lastCall,        \* the last insert(path) call and what it returned
    calls, saves, faults,
    inputs,          \* the paths the caller has to insert
    subsets,         \* output endpoint: subset k's metadata and base chunk
    whole,           \* history: the non-subset build of the input merge() reads
    queued,          \* history: the origins handed to the work pool
    delivered,       \* history: the points the reader handed to insert(view)
    outcome,         \* history: what became of each point
    scan,            \* the Scan object: its members and its caller's position
    fetch,           \* a call of SleepyTree::fetchAndWriteFile and its local file
    infoPool         \* the info records returned to the pool: id -> times returned

vars == <<m_bbox, m_subBBox, m_structure, m_schema, m_compress, m_reprojection,
          m_trustHeaders, m_srs, sleepCount, totalThreads, m_manifest, m_stats,
          m_pool, clipPool, wk, chunks, cells, endpoint, mainPc, lastCall, calls,
          saves, faults, inputs, subsets, whole, queued, delivered, outcome, scan,
          fetch, infoPool>>

\* The members of a Builder and the history of its build.
builderVars == <<m_bbox, m_subBBox, m_structure, m_schema, m_compress, m_reprojection,
                 m_trustHeaders, m_srs, sleepCount, totalThreads, m_manifest, m_stats,
                 m_pool, clipPool, wk, chunks, cells, endpoint, mainPc, lastCall,
                 calls, saves, faults, inputs, subsets, whole, queued, delivered,
                 outcome, infoPool>>

\* What no step of a build changes.
configVars == <<m_subBBox, m_structure, m_schema, m_compress, m_reprojection,
               m_trustHeaders, sleepCount, totalThreads, clipPool, inputs, subsets,
               whole, scan, fetch>>
registryVars == <<chunks, cells, endpoint>>
callerVars == <<mainPc, lastCall, calls, saves>>
histVars == <<queued, delivered, outcome, infoPool>>

Is3d == m_structure.is3d
Workers == 1 .. getWorkThreads(totalThreads)

NoPoint == << >>

\* A member that holds no object.
Null == << >>

\* No Scan object: the process builds without scanning.
NoScan == << >>
NoFetch == << >>
NoMeta == [props |-> << >>, ids |-> {}, written |-> FALSE]

\* Structure::subset: of = 0 stands for a whole build.
NoSubset == [id |-> 0, of |-> 0]
SubsetCount == 4

IdleWorker ==
    [pc |-> "idle", origin |-> InvalidOrigin, path |-> "", batch |-> 0, idx |-> 0,
     count |-> 0, zRange |-> EmptyRange, clipper |-> {},
     climber |-> NewClimber(GlobalBounds(FALSE)),
     infoStack |-> << >>, rejected |-> << >>]

NewChunk == [state |-> "absent", refs |-> 0, scheduled |-> FALSE]

\* Faulty variant of prep: sleepCount is set for either number of threads.
prepSetsEither(current, threads) ==
    IF threads = 1 THEN SleepCountSingle ELSE SleepCountMulti

\* Builder::prep: a single work thread raises the file-scope sleepCount,
\* any other number of threads leaves it as it is.
prep(current, threads) == IF threads = 1 THEN SleepCountSingle ELSE current

\* The state after construction, for a given set of input paths and with
\* or without the bbox argument.
BuiltWith(ps, bbox) ==
    /\ inputs = ps
    /\ subsets = << >>
    /\ whole = << >>
    /\ m_structure \in [is3d : BOOLEAN, totalDepth : {TotalDepth}, baseDepth : {BaseDepth},
                        subset : {NoSubset, [id |-> 0, of |-> SubsetCount]}]
    /\ m_schema = "XYZ,Origin"
    /\ m_compress = TRUE
    /\ m_reprojection = {}
    /\ m_bbox = IF bbox THEN GlobalBounds(m_structure.is3d) ELSE Null
    /\ m_subBBox = IF m_structure.subset = NoSubset THEN {}
                   ELSE {SubsetBounds(m_structure.is3d)}
    /\ m_trustHeaders \in BOOLEAN
    /\ m_srs = ""
    /\ totalThreads \in TotalThreadsChoices
    /\ sleepCount = prep(SleepCountMulti, getWorkThreads(totalThreads))
    /\ m_manifest = NewManifest
    /\ m_stats = NewStats
    /\ m_pool = [queue |-> << >>, running |-> TRUE]
    /\ clipPool = getClipThreads(totalThreads)
    /\ wk = [w \in 1 .. getWorkThreads(totalThreads) |-> IdleWorker]
    /\ chunks = [c \in ColdIds(m_structure.is3d) |-> NewChunk]
    /\ cells = [n \in Nodes(m_structure.is3d) |-> NoPoint]
    /\ endpoint = [chunks |-> {}, cells |-> [n \in Nodes(m_structure.is3d) |-> NoPoint],
                   meta |-> NoMeta]
    /\ mainPc = "ready"
    /\ lastCall = [ret |-> "none"]
    /\ calls = 0
    /\ saves = 0
    /\ faults = 0
    /\ queued = {}
    /\ delivered = {}
    /\ outcome = {}
    /\ infoPool = << >>
    /\ scan = NoScan
    /\ fetch = NoFetch

\* The state after construction with bounds.
Built(ps) == BuiltWith(ps, TRUE)

Init == Built({"a", "b", "bad"})

(* ----------------------- Registry and Clipper -------------------------- *)

\* Registry::clip: drop one clipper's reference; at zero, queue the chunk on
\* the clip pool.
RegistryClip(ch, id) ==
    [ch EXCEPT ![id] = [@ EXCEPT !.refs = @ - 1,
                                 !.scheduled = @ \/ (ch[id].refs - 1 = 0)]]

\* Faulty variant of clip: the call never reaches the registry.
clipDropped(ch, id) == ch

\* Builder::clip forwards to the registry.
clip(ch, id) == RegistryClip(ch, id)

\* ~Clipper: clip every chunk id the clipper recorded, in ascending order.
RECURSIVE ClipperDestroy(_, _)
ClipperDestroy(ch, ids) ==
    IF ids = {} THEN ch
    ELSE LET id == CHOOSE x \in ids : \A y \in ids : x <= y
         IN ClipperDestroy(clip(ch, id), ids \ {id})

\* fetchOrCreate on a resident chunk: a clipper registers once per chunk id.
RegistryRef(ch, id, clipper) ==
    IF id \in clipper THEN ch ELSE [ch EXCEPT ![id].refs = @ + 1]

Writing == {c \in DOMAIN chunks : chunks[c].state = "writing"}

(* ------------------------------ the caller ----------------------------- *)

Task(origin, path) == [origin |-> origin, path |-> path]

\* Faulty variant of InsertOmitted: the rejected path is given an origin.
InsertOmittedAsOrigin(path) ==
    /\ ~Good(path)
    /\ m_manifest' = AddOrigin(AddOmission(m_manifest, path), path)
    /\ lastCall' = [ret |-> "false"]
    /\ UNCHANGED <<m_pool, m_srs, faults, queued>>

\* insert(path), reader rejects the path.
InsertOmitted(path) ==
    /\ ~Good(path)
    /\ m_manifest' = AddOmission(m_manifest, path)
    /\ lastCall' = [ret |-> "false"]
    /\ UNCHANGED <<m_pool, m_srs, faults, queued>>

\* Faulty variant of InsertDuplicate: the early return is missing and the
\* per-file task is queued under the invalid origin.
InsertDuplicateQueues(path) ==
    /\ Good(path)
    /\ OriginFor(m_manifest, path) = InvalidOrigin
    /\ m_pool' = [m_pool EXCEPT !.queue = Append(@, Task(InvalidOrigin, path))]
    /\ lastCall' = [ret |-> "true"]
    /\ UNCHANGED <<m_manifest, m_srs, faults, queued>>

\* insert(path), addOrigin answers invalidOrigin.
InsertDuplicate(path) ==
    /\ Good(path)
    /\ OriginFor(m_manifest, path) = InvalidOrigin
    /\ lastCall' = [ret |-> "false"]
    /\ UNCHANGED <<m_manifest, m_pool, m_srs, faults, queued>>

\* infer(path): the deep preview sets the srs; the bounds are configured.
infer(path) == IF HasPreview(path) THEN Srs(path) ELSE m_srs

\* insert(path), a new origin: origin 0 is inferred from first, then the
\* per-file task is queued.
InsertNew(path) ==
    /\ Good(path)
    /\ OriginFor(m_manifest, path) # InvalidOrigin
    /\ m_manifest' = AddOrigin(m_manifest, path)
    /\ m_srs' = IF OriginFor(m_manifest, path) = 0 THEN infer(path) ELSE m_srs
    /\ m_pool' = [m_pool EXCEPT
                    !.queue = Append(@, Task(OriginFor(m_manifest, path), path))]
    /\ queued' = queued \cup {OriginFor(m_manifest, path)}
    /\ lastCall' = [ret |-> "true"]
    /\ UNCHANGED faults

\* insert(path), origin 0, and getLocalHandle or infer throws: the exception
\* leaves insert before the task is queued.
InsertInferThrows(path) ==
    /\ Good(path)
    /\ OriginFor(m_manifest, path) = 0
    /\ faults < MaxFaults
    /\ faults' = faults + 1
    /\ m_manifest' = AddOrigin(m_manifest, path)
    /\ lastCall' = [ret |-> "throw"]
    /\ UNCHANGED <<m_pool, m_srs, queued>>

Insert(path) ==
    /\ path \in inputs
    /\ mainPc = "ready"
    /\ calls < MaxInserts
    /\ calls' = calls + 1
    /\ \/ InsertOmitted(path)
       \/ InsertDuplicate(path)
       \/ InsertNew(path)
       \/ InsertInferThrows(path)
    /\ UNCHANGED <<m_bbox, configVars, m_stats, wk, registryVars, mainPc, saves,
                   delivered, outcome, infoPool>>

PoolDrained == m_pool.queue = << >> /\ \A w \in Workers : wk[w].pc = "idle"

\* join(), called by the caller or as the first statement of save(): the
\* call returns once the work pool has run every queued task.
join ==
    /\ mainPc = "ready"
    /\ PoolDrained
    /\ m_pool' = [m_pool EXCEPT !.running = FALSE]
    /\ mainPc' = "joined"
    /\ UNCHANGED <<m_bbox, configVars, m_srs, m_manifest, m_stats, wk,
                   registryVars, lastCall, calls, saves, faults, histVars>>

\* saveProps: one key per member, reprojection only when there is one.
saveProps ==
    [bbox |-> m_bbox, schema |-> m_schema, structure |-> m_structure,
     manifest |-> m_manifest, srs |-> m_srs, stats |-> m_stats,
     compressed |-> m_compress, trustHeaders |-> m_trustHeaders]
        @@ (IF m_reprojection = {} THEN << >>
            ELSE [reprojection |-> CHOOSE r \in m_reprojection : TRUE])

ClipPoolIdle == \A c \in DOMAIN chunks : ~chunks[c].scheduled /\ chunks[c].state # "writing"

\* Registry::save: once the clip pool has drained, write the base chunk.
RegistrySave(ep) ==
    [ep EXCEPT !.chunks = @ \cup {BaseId},
               !.cells = [n \in DOMAIN @ |->
                            IF ChunkIdOf(Is3d, n) = BaseId THEN cells[n] ELSE @[n]]]

\* Faulty variant of SaveRegistry: save() does not call join() first.
SaveRegistryNoJoin ==
    /\ mainPc \in {"ready", "joined"}
    /\ saves < MaxSaves
    /\ ClipPoolIdle
    /\ endpoint' = RegistrySave(endpoint)
    /\ mainPc' = "saving"
    /\ UNCHANGED <<m_bbox, configVars, m_srs, m_manifest, m_stats, m_pool, wk, chunks,
                   cells, lastCall, calls, saves, faults, histVars>>

\* Faulty variant of SaveRegistry: the metadata is put before the registry
\* is saved.
SaveRegistryAfterPut ==
    /\ mainPc = "joined"
    /\ saves < MaxSaves
    /\ ClipPoolIdle
    /\ endpoint' = [endpoint EXCEPT
                      !.meta = [props |-> saveProps, ids |-> endpoint.chunks \ {BaseId},
                                written |-> TRUE]]
    /\ mainPc' = "saving"
    /\ UNCHANGED <<m_bbox, configVars, m_srs, m_manifest, m_stats, m_pool, wk, chunks,
                   cells, lastCall, calls, saves, faults, histVars>>

\* save() after its join(): saveProps and m_registry->save(jsonMeta).
SaveRegistry ==
    /\ mainPc = "joined"
    /\ saves < MaxSaves
    /\ ClipPoolIdle
    /\ endpoint' = RegistrySave(endpoint)
    /\ mainPc' = "saving"
    /\ UNCHANGED <<m_bbox, configVars, m_srs, m_manifest, m_stats, m_pool, wk, chunks,
                   cells, lastCall, calls, saves, faults, histVars>>

\* save() after m_registry->save: putSubpath of the metadata, m_pool->go().
SaveWrite ==
    /\ mainPc = "saving"
    /\ saves' = saves + 1
    /\ endpoint' = [endpoint EXCEPT
                      !.meta = [props |-> saveProps, ids |-> endpoint.chunks \ {BaseId},
                                written |-> TRUE]]
    /\ m_pool' = [m_pool EXCEPT !.running = TRUE]
    /\ mainPc' = "ready"
    /\ UNCHANGED <<m_bbox, configVars, m_srs, m_manifest, m_stats, wk, chunks, cells,
                   lastCall, calls, faults, histVars>>

(* --------------------------- the per-file task ------------------------- *)

Batches(w) == FileBatches(wk[w].path)
CurBatch(w) == Batches(w)[wk[w].batch]
CurPoint(w) == CurBatch(w)[wk[w].idx]
CurId(w) == <<wk[w].origin, wk[w].batch, wk[w].idx>>

\* The task leaves its scope: the worker's Clipper is destroyed.
TaskExit(w) ==
    /\ chunks' = ClipperDestroy(chunks, wk[w].clipper)
    /\ wk' = [wk EXCEPT ![w] = IdleWorker]

\* Faulty variant of TaskCatch: the Clipper is held by a raw pointer and is
\* not destroyed when the exception unwinds the task.
TaskCatchLeak(w) ==
    /\ faults < MaxFaults
    /\ faults' = faults + 1
    /\ m_manifest' = AddError(m_manifest, wk[w].origin)
    /\ wk' = [wk EXCEPT ![w] = [IdleWorker EXCEPT !.clipper = wk[w].clipper]]
    /\ UNCHANGED chunks

\* An exception reaches the task's catch clauses: the stack is unwound (the
\* Clipper is destroyed) and the origin is recorded as errored.
TaskCatch(w) ==
    /\ faults < MaxFaults
    /\ faults' = faults + 1
    /\ m_manifest' = AddError(m_manifest, wk[w].origin)
    /\ TaskExit(w)

\* The pool's threads are interchangeable: the idle thread of lowest index
\* takes the next task.
FirstIdle(w) == wk[w].pc = "idle" /\ \A v \in Workers : v < w => wk[v].pc # "idle"

\* A work thread takes the next task; getLocalHandle materializes the file,
\* then the Clipper, the z range and the point count are set up.
TaskBegin(w) ==
    /\ FirstIdle(w)
    /\ m_pool.running
    /\ m_pool.queue # << >>
    /\ m_pool' = [m_pool EXCEPT !.queue = Tail(@)]
    /\ wk' = [wk EXCEPT ![w] =
                [IdleWorker EXCEPT
                   !.pc = IF m_trustHeaders THEN "preview" ELSE "run",
                   !.origin = Head(m_pool.queue).origin,
                   !.path = Head(m_pool.queue).path]]
    /\ UNCHANGED <<m_bbox, configVars, m_srs, m_manifest, m_stats, registryVars,
                   callerVars, faults, histVars>>

\* getLocalHandle throws: caught, origin errored.
TaskFetchFails(w) ==
    /\ FirstIdle(w)
    /\ m_pool.running
    /\ m_pool.queue # << >>
    /\ faults < MaxFaults
    /\ faults' = faults + 1
    /\ m_pool' = [m_pool EXCEPT !.queue = Tail(@)]
    /\ m_manifest' = AddError(m_manifest, Head(m_pool.queue).origin)
    /\ UNCHANGED <<m_bbox, configVars, m_srs, m_stats, wk, registryVars,
                   callerVars, histVars>>

\* The trustHeaders preview: a file whose header bounds miss the global bounds
\* is counted out of bounds by its header count, one that misses only the
\* subset bounds is skipped.
\* Faulty variant of PreviewStats: the header count is added without the
\* overlap test.
PreviewStatsAlways(path) ==
    IF HasPreview(path)
    THEN StatsAddOutOfBounds(m_stats, PreviewNumPoints(path))
    ELSE m_stats

PreviewStats(path) ==
    IF HasPreview(path) /\ ~Overlaps(PreviewBounds(path), m_bbox)
    THEN StatsAddOutOfBounds(m_stats, PreviewNumPoints(path))
    ELSE m_stats

\* Faulty variant of DoInsert: doInsert is never cleared.
DoInsertAlways(path) == TRUE

DoInsert(path) ==
    \/ ~HasPreview(path)
    \/ /\ Overlaps(PreviewBounds(path), m_bbox)
       /\ \A sub \in m_subBBox : Overlaps(PreviewBounds(path), sub)

SkipTag(path) ==
    IF Overlaps(PreviewBounds(path), m_bbox) THEN "headerOutOfSubset"
    ELSE "headerOutOfBounds"

TaskPreview(w) ==
    /\ wk[w].pc = "preview"
    /\ m_stats' = PreviewStats(wk[w].path)
    /\ IF DoInsert(wk[w].path)
       THEN wk' = [wk EXCEPT ![w].pc = "run"] /\ UNCHANGED <<chunks, outcome>>
       ELSE /\ TaskExit(w)
            /\ outcome' = outcome \cup
                  {<<id, SkipTag(wk[w].path)>> : id \in FilePointIds(wk[w].origin, wk[w].path)}
    /\ UNCHANGED <<m_bbox, configVars, m_srs, m_manifest, m_pool, cells, endpoint,
                   callerVars, faults, queued, delivered, infoPool>>

TaskPreviewThrows(w) ==
    /\ wk[w].pc = "preview"
    /\ TaskCatch(w)
    /\ UNCHANGED <<m_bbox, configVars, m_srs, m_stats, m_pool, cells, endpoint,
                   callerVars, histVars>>

\* InfoPool::acquire(n): a stack of n records, here named by the points
\* they will hold.
Acquire(origin, batch, n) == [i \in 1 .. n |-> <<origin, batch, i>>]

\* The reader hands the next batch to the inserter: count += view.size(),
\* and insert(view) acquires one info record for each point of the batch.
ReaderBatch(w) ==
    /\ wk[w].pc = "run"
    /\ wk[w].batch < Len(Batches(w))
    /\ wk' = [wk EXCEPT ![w].pc = "point",
                        ![w].batch = @ + 1,
                        ![w].idx = 1,
                        ![w].count = @ + Len(Batches(w)[wk[w].batch + 1]),
                        ![w].infoStack = Acquire(wk[w].origin, wk[w].batch + 1,
                                                 Len(Batches(w)[wk[w].batch + 1])),
                        ![w].rejected = << >>]
    /\ delivered' = delivered \cup
                      {<<wk[w].origin, wk[w].batch + 1, i>> :
                         i \in 1 .. Len(Batches(w)[wk[w].batch + 1])}
    /\ UNCHANGED <<m_bbox, configVars, m_srs, m_manifest, m_stats, m_pool,
                   registryVars, callerVars, faults, queued, outcome, infoPool>>

\* Faulty variant of ReaderFails: the else branch that records the error is
\* missing.
ReaderFailsSilent(w) ==
    /\ wk[w].pc = "run"
    /\ faults < MaxFaults
    /\ faults' = faults + 1
    /\ TaskExit(w)
    /\ UNCHANGED <<m_bbox, configVars, m_srs, m_manifest, m_stats, m_pool, cells,
                   endpoint, callerVars, histVars>>

\* The z range of a file, rounded outwards.
FileZRange(r) == [min |-> Floor2(r.min), max |-> Ceil2(r.max)]

\* Faulty variant of ReaderFails: the z range of the file is grown into the
\* bounds although the reader failed.
ReaderFailsGrowsZ(w) ==
    /\ wk[w].pc = "run"
    /\ faults < MaxFaults
    /\ faults' = faults + 1
    /\ m_manifest' = AddError(m_manifest, wk[w].origin)
    /\ m_bbox' = IF Is3d THEN m_bbox ELSE GrowZ(m_bbox, FileZRange(wk[w].zRange))
    /\ TaskExit(w)
    /\ UNCHANGED <<configVars, m_srs, m_stats, m_pool, cells, endpoint,
                   callerVars, histVars>>

\* Executor::run returns false: the origin is recorded as errored.
ReaderFails(w) ==
    /\ wk[w].pc = "run"
    /\ faults < MaxFaults
    /\ faults' = faults + 1
    /\ m_manifest' = AddError(m_manifest, wk[w].origin)
    /\ TaskExit(w)
    /\ UNCHANGED <<m_bbox, configVars, m_srs, m_stats, m_pool, cells, endpoint,
                   callerVars, histVars>>

\* Executor::run throws.
ReaderThrows(w) ==
    /\ wk[w].pc = "run"
    /\ TaskCatch(w)
    /\ UNCHANGED <<m_bbox, configVars, m_srs, m_stats, m_pool, cells, endpoint,
                   callerVars, histVars>>

\* Faulty variant of ReaderDone: the z range is grown into a copy of the
\* bounds taken before any file was read, and that copy is written back.
ReaderDoneStale(w) ==
    /\ wk[w].pc = "run"
    /\ wk[w].batch = Len(Batches(w))
    /\ m_bbox' = IF Is3d THEN m_bbox
                 ELSE GrowZ(GlobalBounds(FALSE), FileZRange(wk[w].zRange))
    /\ TaskExit(w)
    /\ UNCHANGED <<configVars, m_srs, m_manifest, m_stats, m_pool, cells, endpoint,
                   callerVars, faults, histVars>>

\* Executor::run returns true: in a 2D build the file's z range is rounded
\* outwards and grown into the global bounds under the builder mutex.
ReaderDone(w) ==
    /\ wk[w].pc = "run"
    /\ wk[w].batch = Len(Batches(w))
    /\ m_bbox' = IF Is3d THEN m_bbox ELSE GrowZ(m_bbox, FileZRange(wk[w].zRange))
    /\ TaskExit(w)
    /\ UNCHANGED <<configVars, m_srs, m_manifest, m_stats, m_pool, cells, endpoint,
                   callerVars, faults, histVars>>

(* ------------------------------ insert(view) --------------------------- *)

\* The worker's position after the current point of the batch; after the
\* last point insert(view) returns and its stacks are gone.
NextPoint(w, rec) ==
    IF wk[w].idx < Len(CurBatch(w))
    THEN [rec EXCEPT !.pc = "point", !.idx = @ + 1]
    ELSE [rec EXCEPT !.pc = "batchEnd", !.infoStack = << >>, !.rejected = << >>]

\* infoStack.popOne(): the record on top leaves the stack.
PopOne(rec) == [rec EXCEPT !.infoStack = Tail(@)]

\* Faulty variant of RejectedPush: the record is not kept.
RejectedPushDropped(rejected, info) == rejected

\* rejected.push(std::move(info)).
RejectedPush(rejected, info) == Append(rejected, info)

\* How often a record has been returned to the pool.
TimesReturned(pool, info) == IF info \in DOMAIN pool THEN pool[info] ELSE 0

\* ~PooledInfoStack: every record of the stack is returned to its pool.
RECURSIVE Release(_, _)
Release(pool, stack) ==
    IF stack = << >> THEN pool
    ELSE Release([info \in DOMAIN pool \cup {Head(stack)} |->
                    TimesReturned(pool, info) + (IF info = Head(stack) THEN 1 ELSE 0)],
                 Tail(stack))

\* The pool once the current point is dealt with: after the last point of
\* the batch insert(view) returns, and rejected and infoStack are destroyed.
InsertReturns(w, rec) ==
    IF wk[w].idx < Len(CurBatch(w)) THEN infoPool
    ELSE Release(Release(infoPool, rec.rejected), rec.infoStack)

\* Faulty variants of the two counted rejections: the counter is not raised.
RejectOutOfBoundsUncounted(st) == st
RejectFallThroughUncounted(st) == st

\* A point outside the global bounds: rejected and counted.
RejectOutOfBounds(st) == StatsAddOutOfBounds(st, 1)

\* Faulty variant of RejectOutOfSubset: the point is counted as a fall-through.
RejectOutOfSubsetAsFallThrough(st) == StatsAddFallThrough(st, 1)

\* A point inside the global bounds but outside the subset bounds: rejected.
RejectOutOfSubset(st) == st

\* addPoint returned false: rejected and counted.
RejectFallThrough(st) == StatsAddFallThrough(st, 1)

\* addPoint returned true.
CountPlaced(st) == StatsAddPoint(st, 1)

InSubset(p) == \A sub \in m_subBBox : Contains(sub, p)

\* addPoint, step a: the climber's chunk. The base chunk is always resident
\* and needs no fetch.
Resolve(c) == IF ChunkIdOf(Is3d, c.index) = BaseId THEN "cell" ELSE "fetch"

\* The worker once the record popped for the current point is pushed on
\* rejected.
Rejecting(w) ==
    [PopOne(wk[w]) EXCEPT !.rejected = RejectedPush(@, Head(wk[w].infoStack))]

\* The worker once addPoint has answered false: the record in hand is
\* pushed on rejected.
RejectingInHand(w) == [wk[w] EXCEPT !.rejected = RejectedPush(@, CurId(w))]

\* One iteration of the loop of insert(view), up to the call of addPoint:
\* a record is popped, and pushed on rejected when the point is outside the
\* bounds or the subset bounds.
PointStep(w) ==
    /\ wk[w].pc = "point"
    /\ IF Contains(m_bbox, CurPoint(w))
       THEN IF InSubset(CurPoint(w))
            THEN /\ wk' = [wk EXCEPT ![w] =
                             [PopOne(@) EXCEPT !.pc = Resolve(NewClimber(m_bbox)),
                                               !.climber = NewClimber(m_bbox)]]
                 /\ UNCHANGED <<m_stats, outcome, infoPool>>
            ELSE /\ wk' = [wk EXCEPT ![w] = NextPoint(w, Rejecting(w))]
                 /\ infoPool' = InsertReturns(w, Rejecting(w))
                 /\ m_stats' = RejectOutOfSubset(m_stats)
                 /\ outcome' = outcome \cup {<<CurId(w), "outOfSubset">>}
       ELSE /\ wk' = [wk EXCEPT ![w] = NextPoint(w, Rejecting(w))]
            /\ infoPool' = InsertReturns(w, Rejecting(w))
            /\ m_stats' = RejectOutOfBounds(m_stats)
            /\ outcome' = outcome \cup {<<CurId(w), "outOfBounds">>}
    /\ UNCHANGED <<m_bbox, configVars, m_srs, m_manifest, m_pool, registryVars,
                   callerVars, faults, queued, delivered>>

CurChunk(w) == ChunkIdOf(Is3d, wk[w].climber.index)

\* Faulty variant of CanReserve: a chunk already being loaded is loaded again.
CanReserveUnlocked(st) == st \in {"absent", "loading"}

\* fetchOrCreate, under the cache lock: only an absent chunk is reserved.
CanReserve(st) == st = "absent"

\* Faulty variant of Fetch: a caller that finds the chunk being loaded takes
\* it as it is, without waiting for the load to complete.
FetchWithoutWaiting(w) ==
    /\ wk[w].pc = "fetch"
    /\ \/ /\ chunks[CurChunk(w)].state \in {"resident", "loading"}
          /\ chunks' = RegistryRef(chunks, CurChunk(w), wk[w].clipper)
          /\ wk' = [wk EXCEPT ![w].pc = "cell", ![w].clipper = @ \cup {CurChunk(w)}]
       \/ /\ CanReserve(chunks[CurChunk(w)].state)
          /\ chunks' = [chunks EXCEPT ![CurChunk(w)].state = "loading"]
          /\ wk' = [wk EXCEPT ![w].pc = "load"]
    /\ UNCHANGED <<m_bbox, configVars, m_srs, m_manifest, m_stats, m_pool, cells,
                   endpoint, callerVars, faults, histVars>>

\* addPoint, step b: fetchOrCreate of a cold chunk. A resident chunk is
\* referenced; an absent one is reserved for loading; a chunk being loaded
\* or written makes the caller wait.
Fetch(w) ==
    /\ wk[w].pc = "fetch"
    /\ \/ /\ chunks[CurChunk(w)].state = "resident"
          /\ chunks' = RegistryRef(chunks, CurChunk(w), wk[w].clipper)
          /\ wk' = [wk EXCEPT ![w].pc = "cell", ![w].clipper = @ \cup {CurChunk(w)}]
       \/ /\ CanReserve(chunks[CurChunk(w)].state)
          /\ chunks' = [chunks EXCEPT ![CurChunk(w)].state = "loading"]
          /\ wk' = [wk EXCEPT ![w].pc = "load"]
    /\ UNCHANGED <<m_bbox, configVars, m_srs, m_manifest, m_stats, m_pool, cells,
                   endpoint, callerVars, faults, histVars>>

\* Faulty variant of Deserialize: the chunk is always created empty.
DeserializeFresh(id, n) == NoPoint

\* The chunk as read back from the endpoint, or fresh when never persisted.
Deserialize(id, n) == IF id \in endpoint.chunks THEN endpoint.cells[n] ELSE NoPoint

\* fetchOrCreate, the loader: read and deserialize, install, refcount = 1.
Load(w) ==
    /\ wk[w].pc = "load"
    /\ cells' = [n \in DOMAIN cells |->
                   IF ChunkIdOf(Is3d, n) = CurChunk(w)
                   THEN Deserialize(CurChunk(w), n) ELSE cells[n]]
    /\ chunks' = [chunks EXCEPT ![CurChunk(w)].state = "resident",
                                ![CurChunk(w)].refs = 1]
    /\ wk' = [wk EXCEPT ![w].pc = "cell", ![w].clipper = @ \cup {CurChunk(w)}]
    /\ UNCHANGED <<m_bbox, configVars, m_srs, m_manifest, m_stats, m_pool, endpoint,
                   callerVars, faults, histVars>>

\* Faulty variant of ChunkInsert: the cell is written without the test.
ChunkInsertOverwrite(cs, n, id) == [cs EXCEPT ![n] = id]

\* Chunk::insert: claim the cell if it is empty.
ChunkInsert(cs, n, id) == IF cs[n] = NoPoint THEN [cs EXCEPT ![n] = id] ELSE cs

\* addPoint, steps c and d: try the cell; on a collision climb down, and fall
\* through when the climber reaches totalDepth.
Cell(w) ==
    /\ wk[w].pc = "cell"
    /\ cells' = ChunkInsert(cells, wk[w].climber.index, CurId(w))
    /\ IF cells[wk[w].climber.index] = NoPoint
       THEN /\ m_stats' = CountPlaced(m_stats)
            /\ wk' = [wk EXCEPT ![w] =
                        NextPoint(w, [@ EXCEPT !.zRange = RangeGrow(@, CurPoint(w)[3])])]
            /\ infoPool' = InsertReturns(w, wk[w])
            /\ outcome' = outcome \cup {<<CurId(w), "placed">>}
       ELSE IF wk[w].climber.depth + 1 < m_structure.totalDepth
            THEN /\ wk' = [wk EXCEPT ![w].pc = Resolve(Down(Is3d, wk[w].climber, CurPoint(w))),
                                     ![w].climber = Down(Is3d, @, CurPoint(w))]
                 /\ UNCHANGED <<m_stats, outcome, infoPool>>
            ELSE /\ m_stats' = RejectFallThrough(m_stats)
                 /\ wk' = [wk EXCEPT ![w] = NextPoint(w, RejectingInHand(w))]
                 /\ infoPool' = InsertReturns(w, RejectingInHand(w))
                 /\ outcome' = outcome \cup {<<CurId(w), "fallThrough">>}
    /\ UNCHANGED <<m_bbox, configVars, m_srs, m_manifest, m_pool, chunks, endpoint,
                   callerVars, faults, queued, delivered>>

\* Faulty variant of BatchEnd: the Clipper is recycled only once count has
\* passed sleepCount.
BatchEndPastSleepCount(w) ==
    /\ wk[w].pc = "batchEnd"
    /\ IF wk[w].count > sleepCount
       THEN /\ chunks' = ClipperDestroy(chunks, wk[w].clipper)
            /\ wk' = [wk EXCEPT ![w].pc = "run", ![w].count = 0, ![w].clipper = {}]
       ELSE /\ wk' = [wk EXCEPT ![w].pc = "run"]
            /\ UNCHANGED chunks
    /\ UNCHANGED <<m_bbox, configVars, m_srs, m_manifest, m_stats, m_pool, cells,
                   endpoint, callerVars, faults, histVars>>

\* Back in the inserter after insert(view): recycle the Clipper once count
\* has reached sleepCount.
BatchEnd(w) ==
    /\ wk[w].pc = "batchEnd"
    /\ IF wk[w].count >= sleepCount
       THEN /\ chunks' = ClipperDestroy(chunks, wk[w].clipper)
            /\ wk' = [wk EXCEPT ![w].pc = "run", ![w].count = 0, ![w].clipper = {}]
       ELSE /\ wk' = [wk EXCEPT ![w].pc = "run"]
            /\ UNCHANGED chunks
    /\ UNCHANGED <<m_bbox, configVars, m_srs, m_manifest, m_stats, m_pool, cells,
                   endpoint, callerVars, faults, histVars>>

(* ------------------------------- clip pool ----------------------------- *)

\* A clip thread takes a queued chunk: it is serialized only if it is
\* resident and unreferenced.
EvictBegin(c) ==
    /\ chunks[c].scheduled
    /\ Cardinality(Writing) < getClipThreads(totalThreads)
    /\ chunks' = [chunks EXCEPT
                    ![c].scheduled = FALSE,
                    ![c].state = IF chunks[c].state = "resident" /\ chunks[c].refs = 0
                                 THEN "writing" ELSE @]
    /\ UNCHANGED <<m_bbox, configVars, m_srs, m_manifest, m_stats, m_pool, wk, cells,
                   endpoint, callerVars, faults, histVars>>

\* The write completes and the in-memory chunk is destroyed.
EvictEnd(c) ==
    /\ chunks[c].state = "writing"
    /\ endpoint' = [endpoint EXCEPT
                      !.chunks = @ \cup {c},
                      !.cells = [n \in DOMAIN @ |->
                                   IF ChunkIdOf(Is3d, n) = c THEN cells[n] ELSE @[n]]]
    /\ cells' = [n \in DOMAIN cells |->
                   IF ChunkIdOf(Is3d, n) = c THEN NoPoint ELSE cells[n]]
    /\ chunks' = [chunks EXCEPT ![c].state = "absent"]
    /\ UNCHANGED <<m_bbox, configVars, m_srs, m_manifest, m_stats, m_pool, wk,
                   callerVars, faults, histVars>>

(* ----------------------------- specification --------------------------- *)

Next ==
    \/ \E path \in Paths : Insert(path)
    \/ join
    \/ SaveRegistry
    \/ SaveWrite
    \/ \E w \in Workers : TaskBegin(w)
    \/ \E w \in Workers : TaskFetchFails(w)
    \/ \E w \in Workers : TaskPreview(w)
    \/ \E w \in Workers : TaskPreviewThrows(w)
    \/ \E w \in Workers : ReaderBatch(w)
    \/ \E w \in Workers : ReaderFails(w)
    \/ \E w \in Workers : ReaderThrows(w)
    \/ \E w \in Workers : ReaderDone(w)
    \/ \E w \in Workers : PointStep(w)
    \/ \E w \in Workers : Fetch(w)
    \/ \E w \in Workers : Load(w)
    \/ \E w \in Workers : Cell(w)
    \/ \E w \in Workers : BatchEnd(w)
    \/ \E c \in DOMAIN chunks : EvictBegin(c)
    \/ \E c \in DOMAIN chunks : EvictEnd(c)

Spec == Init /\ [][Next]_vars

\* The steps of the work pool's and the clip pool's threads. A thread that
\* can take a step takes one: the pools' threads run until there is nothing
\* for them to do.
PoolNext ==
    \/ \E w \in Workers : TaskBegin(w)
    \/ \E w \in Workers : TaskPreview(w)
    \/ \E w \in Workers : ReaderBatch(w)
    \/ \E w \in Workers : ReaderDone(w)
    \/ \E w \in Workers : PointStep(w)
    \/ \E w \in Workers : Fetch(w)
    \/ \E w \in Workers : Load(w)
    \/ \E w \in Workers : Cell(w)
    \/ \E w \in Workers : BatchEnd(w)
    \/ \E c \in DOMAIN chunks : EvictBegin(c)
    \/ \E c \in DOMAIN chunks : EvictEnd(c)

SpecFair == Init /\ [][Next]_vars /\ WF_vars(PoolNext)

\* A trustHeaders build whose inputs include file c, the file with the
\* wrong header.
InitHeaders == Built({"a", "c", "bad"}) /\ m_trustHeaders

SpecHeaders == InitHeaders /\ [][Next]_vars

(* ---------------------------- construction ----------------------------- *)

\* The arguments of the constructor of a new build, before its member
\* initializers have run: no pool and no Registry yet.
InitThreads ==
    /\ inputs = {}
    /\ subsets = << >>
    /\ whole = << >>
    /\ m_structure \in [is3d : BOOLEAN, totalDepth : {TotalDepth}, baseDepth : {BaseDepth},
                        subset : {NoSubset}]
    /\ m_schema = "XYZ,Origin"
    /\ m_compress = TRUE
    /\ m_reprojection = {}
    /\ m_bbox = GlobalBounds(m_structure.is3d)
    /\ m_subBBox = {}
    /\ m_trustHeaders \in BOOLEAN
    /\ m_srs = ""
    /\ totalThreads \in 0 .. MaxTotalThreads
    /\ sleepCount = SleepCountMulti
    /\ m_manifest = NewManifest
    /\ m_stats = NewStats
    /\ m_pool = [queue |-> << >>, running |-> FALSE]
    /\ clipPool = 0
    /\ wk = << >>
    /\ chunks = [c \in ColdIds(m_structure.is3d) |-> NewChunk]
    /\ cells = [n \in Nodes(m_structure.is3d) |-> NoPoint]
    /\ endpoint = [chunks |-> {}, cells |-> [n \in Nodes(m_structure.is3d) |-> NoPoint],
                   meta |-> NoMeta]
    /\ mainPc = "constructing"
    /\ lastCall = [ret |-> "none"]
    /\ calls = 0
    /\ saves = 0
    /\ faults = 0
    /\ queued = {}
    /\ delivered = {}
    /\ outcome = {}
    /\ infoPool = << >>
    /\ scan = NoScan
    /\ fetch = NoFetch

\* The constructor of a new build: the work pool gets
\* getWorkThreads(totalThreads) threads, the Registry's clip pool
\* getClipThreads(totalThreads), and prep() sets sleepCount.
Builder ==
    /\ mainPc = "constructing"
    /\ wk = << >>
    /\ m_pool' = [queue |-> << >>, running |-> TRUE]
    /\ wk' = [w \in 1 .. getWorkThreads(totalThreads) |-> IdleWorker]
    /\ clipPool' = getClipThreads(totalThreads)
    /\ sleepCount' = prep(sleepCount, getWorkThreads(totalThreads))
    /\ mainPc' = "ready"
    /\ UNCHANGED <<m_bbox, m_subBBox, m_structure, m_schema, m_compress,
                   m_reprojection, m_trustHeaders, m_srs, totalThreads, m_manifest,
                   m_stats, registryVars, lastCall, calls, saves, faults, inputs,
                   subsets, whole, histVars, scan,
                   fetch>>

NextThreads ==
    \/ Builder
    \/ join

SpecThreads == InitThreads /\ [][NextThreads]_vars

\* ~Builder, and the arguments of the next Builder that the process
\* constructs: the members go with the Builder, the file-scope sleepCount
\* stays.
BuilderDestroy ==
    /\ mainPc \in {"ready", "joined"}
    /\ PoolDrained
    /\ \E total \in 0 .. MaxTotalThreads : totalThreads' = total
    /\ m_pool' = [queue |-> << >>, running |-> FALSE]
    /\ wk' = << >>
    /\ clipPool' = 0
    /\ mainPc' = "constructing"
    /\ UNCHANGED <<m_bbox, m_subBBox, m_structure, m_schema, m_compress,
                   m_reprojection, m_trustHeaders, m_srs, sleepCount, m_manifest,
                   m_stats, registryVars, lastCall, calls, saves, faults, inputs,
                   subsets, whole, histVars, scan,
                   fetch>>

NextProcess ==
    \/ Builder
    \/ join
    \/ BuilderDestroy

\* The Builders that one process constructs one after the other.
SpecProcess == InitThreads /\ [][NextProcess]_vars

(* ------------------------------ load() --------------------------------- *)

\* Faulty variant of loadProps: trustHeaders keeps the constructor's value.
loadPropsKeepsTrustHeaders(props) ==
    [m_bbox |-> props.bbox,
     m_schema |-> props.schema,
     m_structure |-> props.structure,
     m_reprojection |-> IF "reprojection" \in DOMAIN props
                        THEN {props.reprojection} ELSE m_reprojection,
     m_srs |-> props.srs,
     m_manifest |-> props.manifest,
     m_stats |-> props.stats,
     m_trustHeaders |-> m_trustHeaders,
     m_compress |-> props.compressed]

\* The members after loadProps(props).
loadProps(props) ==
    [m_bbox |-> props.bbox,
     m_schema |-> props.schema,
     m_structure |-> props.structure,
     m_reprojection |-> IF "reprojection" \in DOMAIN props
                        THEN {props.reprojection} ELSE m_reprojection,
     m_srs |-> props.srs,
     m_manifest |-> props.manifest,
     m_stats |-> props.stats,
     m_trustHeaders |-> props.trustHeaders,
     m_compress |-> props.compressed]

\* load(), the last step of the constructor that continues a build: the
\* metadata is read and parsed, loadProps sets the members, and the Registry
\* is rebuilt from the endpoint.
load ==
    /\ mainPc = "constructing"
    /\ endpoint.meta.written
    /\ LET loaded == loadProps(endpoint.meta.props)
       IN  /\ m_bbox' = loaded.m_bbox
           /\ m_schema' = loaded.m_schema
           /\ m_structure' = loaded.m_structure
           /\ m_reprojection' = loaded.m_reprojection
           /\ m_srs' = loaded.m_srs
           /\ m_manifest' = loaded.m_manifest
           /\ m_stats' = loaded.m_stats
           /\ m_trustHeaders' = loaded.m_trustHeaders
           /\ m_compress' = loaded.m_compress
    /\ cells' = endpoint.cells
    /\ clipPool' = getClipThreads(totalThreads)
    /\ mainPc' = "ready"
    /\ UNCHANGED <<m_subBBox, sleepCount, totalThreads, m_pool, wk, chunks, endpoint,
                   lastCall, calls, saves, faults, inputs, subsets, whole, histVars, scan,
                   fetch>>

\* The metadata that a build may have saved.
SavedProps ==
    {[bbox |-> bbox, schema |-> "XYZ,Origin", structure |-> structure,
      manifest |-> manifest, srs |-> srs, stats |-> stats,
      compressed |-> compressed, trustHeaders |-> trust] @@ reprojection :
        structure \in [is3d : {TRUE}, totalDepth : {TotalDepth},
                       baseDepth : {BaseDepth},
                       subset : {NoSubset, [id |-> 0, of |-> SubsetCount]}],
        bbox \in {GlobalBounds(TRUE)},
        manifest \in {NewManifest,
                      [paths |-> <<"a", "b">>, omissions |-> <<"bad">>, errors |-> {1}]},
        srs \in {"", "srs-a"},
        stats \in {NewStats,
                   [numPoints |-> 3, numOutOfBounds |-> 1, numFallThroughs |-> 1]},
        compressed \in BOOLEAN, trust \in BOOLEAN,
        reprojection \in {<< >>, [reprojection |-> "EPSG:26915 to EPSG:3857"]}}
    \cup
    {[bbox |-> bbox, schema |-> "XYZ,Origin", structure |-> structure,
      manifest |-> NewManifest, srs |-> "", stats |-> NewStats,
      compressed |-> TRUE, trustHeaders |-> FALSE] :
        structure \in [is3d : {FALSE}, totalDepth : {TotalDepth},
                       baseDepth : {BaseDepth}, subset : {NoSubset}],
        bbox \in {GlobalBounds(FALSE), GrowZ(GlobalBounds(FALSE), [min |-> 9, max |-> 11])}}

\* The constructor that continues a build, before its call of load(): every
\* member is empty and the endpoint holds what a save() wrote.
InitProps ==
    /\ \E props \in SavedProps : \E ids \in SUBSET ColdIds(props.structure.is3d) :
        /\ endpoint = [chunks |-> ids \cup {BaseId},
                       cells |-> [n \in Nodes(props.structure.is3d) |-> NoPoint],
                       meta |-> [props |-> props, ids |-> ids, written |-> TRUE]]
        /\ cells = [n \in Nodes(props.structure.is3d) |-> NoPoint]
        /\ chunks = [c \in ColdIds(props.structure.is3d) |-> NewChunk]
    /\ inputs = {}
    /\ subsets = << >>
    /\ whole = << >>
    /\ m_structure = Null
    /\ m_bbox = Null
    /\ m_subBBox = {}
    /\ m_schema = Null
    /\ m_compress \in BOOLEAN
    /\ m_reprojection = {}
    /\ m_trustHeaders = FALSE
    /\ m_srs = ""
    /\ totalThreads \in TotalThreadsChoices
    /\ sleepCount = prep(SleepCountMulti, getWorkThreads(totalThreads))
    /\ m_manifest = Null
    /\ m_stats = NewStats
    /\ m_pool = [queue |-> << >>, running |-> TRUE]
    /\ clipPool = 0
    /\ wk = [w \in 1 .. getWorkThreads(totalThreads) |-> IdleWorker]
    /\ mainPc = "constructing"
    /\ lastCall = [ret |-> "none"]
    /\ calls = 0
    /\ saves = 0
    /\ faults = 0
    /\ queued = {}
    /\ delivered = {}
    /\ outcome = {}
    /\ infoPool = << >>
    /\ scan = NoScan
    /\ fetch = NoFetch

NextProps ==
    \/ load
    \/ join
    \/ SaveRegistry
    \/ SaveWrite

SpecProps == InitProps /\ [][NextProps]_vars

(* --------------------------------- merge ------------------------------- *)

\* Subset::bbox: subset k of SubsetCount is quadrant k of the bounds in x, y.
SubsetBBox(k, is3d) ==
    BBox(<<(k % 2) * 4, (k \div 2) * 4, 0>>,
         <<(k % 2) * 4 + 4, (k \div 2) * 4 + 4, 8>>, is3d)

\* The input of the builds that merge() stitches: three points of quadrant 0
\* that share their cell at depth 1, one point of quadrant 1, one point
\* outside the bounds.
MergeInput == << <<1, 1, 1>>, <<2, 1, 2>>, <<1, 2, 3>>, <<5, 1, 5>>, <<9, 1, 1>> >>

Reverse(order) == [i \in 1 .. Len(order) |-> order[Len(order) + 1 - i]]

\* addPoint with no other thread at work: the whole descent of one point.
RECURSIVE addPoint(_, _, _, _, _)
addPoint(is3d, cs, climber, id, p) ==
    IF cs[climber.index] = NoPoint
    THEN [cells |-> ChunkInsert(cs, climber.index, id), placed |-> TRUE]
    ELSE IF climber.depth + 1 < TotalDepth
         THEN addPoint(is3d, cs, Down(is3d, climber, p), id, p)
         ELSE [cells |-> cs, placed |-> FALSE]

\* insert(view) for one point, in a build with bounds b and subset bounds sub.
InsertPoint(b, sub, built, id, p) ==
    IF Contains(b, p)
    THEN IF \A box \in sub : Contains(box, p)
         THEN LET r == addPoint(b.is3d, built.cells, NewClimber(b), id, p)
              IN  IF r.placed
                  THEN [cells |-> r.cells, stats |-> CountPlaced(built.stats)]
                  ELSE [cells |-> built.cells, stats |-> RejectFallThrough(built.stats)]
         ELSE [cells |-> built.cells, stats |-> RejectOutOfSubset(built.stats)]
    ELSE [cells |-> built.cells, stats |-> RejectOutOfBounds(built.stats)]

\* A finished build of the first i points of MergeInput taken in the given
\* order.
RECURSIVE BuildSeq(_, _, _, _)
BuildSeq(b, sub, order, i) ==
    IF i = 0
    THEN [cells |-> [n \in Nodes(b.is3d) |-> NoPoint], stats |-> NewStats]
    ELSE InsertPoint(b, sub, BuildSeq(b, sub, order, i - 1), <<0, 1, order[i]>>,
                     MergeInput[order[i]])

\* The structure of the merged builds keeps every depth in the base chunk.
MergeStructure(is3d, subset) ==
    [is3d |-> is3d, totalDepth |-> TotalDepth, baseDepth |-> TotalDepth,
     subset |-> subset]

\* Id(string): the number a string of decimal digits denotes.
RECURSIVE IdOfString(_)
IdOfString(str) ==
    IF str = << >> THEN 0
    ELSE 10 * IdOfString(SubSeq(str, 1, Len(str) - 1)) + str[Len(str)]

\* Id::str(): the decimal digits of an id, without leading zeros.
RECURSIVE IdStr(_)
IdStr(id) == IF id < 10 THEN <<id>> ELSE IdStr(id \div 10) \o <<id % 10>>

\* The "ids" arrays the subset builds left in their metadata, as strings of
\* decimal digits: either no subset wrote a cold chunk, or some did and one
\* chunk holds points of two subsets.
SubsetIds(cold, k) ==
    IF ~cold THEN << >>
    ELSE CASE k = 0 -> << <<5>>, <<1, 2>> >>
           [] k = 1 -> << <<7>>, <<1, 2>> >>
           [] k = 3 -> << <<6>>, <<3, 0>> >>
           [] OTHER -> << >>

\* What save() of subset k leaves at the endpoint: entwine-k and the base
\* chunk with postfix -k. The subset count it declares and a difference in
\* its out-of-bounds counter are the endpoint's to vary.
SubsetOutput(is3d, k, order, len, of, skew, ids) ==
    LET built == BuildSeq(GlobalBounds(is3d), {SubsetBBox(k, is3d)}, order, len)
    IN  [meta |->
            [props |->
                [bbox |-> GlobalBounds(is3d), schema |-> "XYZ,Origin",
                 structure |-> MergeStructure(is3d, [id |-> k, of |-> of]),
                 manifest |-> [NewManifest EXCEPT !.paths = <<"a">>],
                 srs |-> "srs-a",
                 stats |-> StatsAddOutOfBounds(built.stats, skew),
                 compressed |-> TRUE, trustHeaders |-> FALSE],
             ids |-> ids, written |-> TRUE],
         base |-> built.cells]

\* BaseChunk::merge: cell by cell, a cell that is taken keeps its point.
BaseChunkMerge(base, current) ==
    [n \in DOMAIN base |-> IF base[n] # NoPoint THEN base[n] ELSE current[n]]

\* Faulty variant of MergeStats: the out-of-bounds counter is summed too.
MergeStatsAll(st, other) ==
    StatsAddOutOfBounds(
        StatsAddFallThrough(StatsAddPoint(st, other.numPoints), other.numFallThroughs),
        other.numOutOfBounds)

\* merge(), the stats of a later segment: numPoints and numFallThroughs are
\* added, numOutOfBounds is compared and logged.
MergeStats(st, other) ==
    StatsAddFallThrough(StatsAddPoint(st, other.numPoints), other.numFallThroughs)

\* Faulty variant of MergeIds: the ids of the segment replace the ones
\* collected so far.
MergeIdsOfSegment(ids, jsonIds) == {IdOfString(jsonIds[i]) : i \in DOMAIN jsonIds}

\* merge(), "Append IDs from this segment": every entry of the segment's
\* array is inserted into the std::set of ids.
MergeIds(ids, jsonIds) == ids \cup {IdOfString(jsonIds[i]) : i \in DOMAIN jsonIds}

\* The iteration of a std::set<Id>: ascending order of the ids.
RECURSIVE SetInOrder(_)
SetInOrder(ids) ==
    IF ids = {} THEN << >>
    ELSE LET least == CHOOSE x \in ids : \A y \in ids : x <= y
         IN  <<least>> \o SetInOrder(ids \ {least})

\* merge(), the "ids" array of the merged metadata: id.str() of every id of
\* the set, in the set's order.
MergedJsonIds(ids) == [i \in DOMAIN SetInOrder(ids) |-> IdStr(SetInOrder(ids)[i])]

\* merge(), the loop over the segments 0 .. i - 1.
RECURSIVE MergeLoop(_)
MergeLoop(i) ==
    IF i = 1
    THEN [base |-> subsets[1].base, ids |-> MergeIds({}, subsets[1].meta.ids),
          stats |-> subsets[1].meta.props.stats]
    ELSE LET acc == MergeLoop(i - 1)
         IN  [base |-> BaseChunkMerge(acc.base, subsets[i].base),
              ids |-> MergeIds(acc.ids, subsets[i].meta.ids),
              stats |-> MergeStats(acc.stats, subsets[i].meta.props.stats)]

\* merge(), the subset count that entwine-0 declares.
baseCount == subsets[1].meta.props.structure.subset.of

\* Faulty variant of MergeCanProceed: the count is not tested.
MergeCanProceedAlways(count) == TRUE

MergeCanProceed(count) == count # 0

\* The members that loadProps sets, as merge() leaves them when it throws.
MergeLoaded(loaded) ==
    /\ m_bbox' = loaded.m_bbox
    /\ m_schema' = loaded.m_schema
    /\ m_reprojection' = loaded.m_reprojection
    /\ m_srs' = loaded.m_srs
    /\ m_manifest' = loaded.m_manifest
    /\ m_trustHeaders' = loaded.m_trustHeaders
    /\ m_compress' = loaded.m_compress

\* merge() of an endpoint whose entwine-0 declares no subsets.
mergeThrows ==
    /\ mainPc = "ready"
    /\ subsets # << >>
    /\ ~MergeCanProceed(baseCount)
    /\ MergeLoaded(loadProps(subsets[1].meta.props))
    /\ m_structure' = loadProps(subsets[1].meta.props).m_structure
    /\ m_stats' = loadProps(subsets[1].meta.props).m_stats
    /\ mainPc' = "mergeFailed"
    /\ UNCHANGED <<m_subBBox, sleepCount, totalThreads, m_pool, clipPool, wk,
                   registryVars, lastCall, calls, saves, faults, inputs, subsets,
                   whole, histVars, scan,
                   fetch>>

\* merge(): the segments are read and folded, the structure is made whole,
\* and the metadata and the base chunk are written.
merge ==
    /\ mainPc = "ready"
    /\ subsets # << >>
    /\ MergeCanProceed(baseCount)
    /\ MergeLoaded(loadProps(subsets[1].meta.props))
    /\ LET n == IF baseCount = 0 THEN 0 ELSE Len(subsets)
           loaded == loadProps(subsets[1].meta.props)
           merged == IF n = 0
                     THEN [base |-> [c \in DOMAIN cells |-> NoPoint], ids |-> {},
                           stats |-> loaded.m_stats]
                     ELSE MergeLoop(n)
       IN  /\ m_stats' = merged.stats
           /\ m_structure' = [loaded.m_structure EXCEPT !.subset = NoSubset]
           /\ m_subBBox' = {}
           /\ cells' = merged.base
           /\ endpoint' = [chunks |-> {BaseId}, cells |-> merged.base,
                           meta |-> [props |-> saveProps',
                                     ids |-> MergedJsonIds(merged.ids),
                                     written |-> TRUE]]
    /\ mainPc' = "merged"
    /\ UNCHANGED <<sleepCount, totalThreads, m_pool, clipPool, wk, chunks, lastCall,
                   calls, saves, faults, inputs, subsets, whole, histVars, scan,
                   fetch>>

\* A Builder opened on an output path that holds the saved outputs of the
\* SubsetCount subset builds of the first len points of MergeInput in some
\* order; the build without subsets of the same input stands beside them.
InitMerge ==
    \E is3d \in BOOLEAN, order \in Permutations(1 .. Len(MergeInput)),
       len \in {3, Len(MergeInput)}, reversed \in BOOLEAN,
       of \in {0, SubsetCount}, skew \in {0, 1}, cold \in BOOLEAN :
        /\ subsets = [k \in 1 .. SubsetCount |->
                        SubsetOutput(is3d, k - 1,
                                     IF reversed
                                     THEN Reverse(SubSeq(order, 1, len))
                                     ELSE order,
                                     len, of, IF k = 2 THEN skew ELSE 0,
                                     SubsetIds(cold, k - 1))]
        /\ whole = BuildSeq(GlobalBounds(is3d), {}, order, len)
        /\ cells = [n \in Nodes(is3d) |-> NoPoint]
        /\ endpoint = [chunks |-> {}, cells |-> [n \in Nodes(is3d) |-> NoPoint],
                       meta |-> NoMeta]
        /\ chunks = [c \in ColdIds(is3d) |-> NewChunk]
    /\ m_structure = Null
    /\ m_bbox = Null
    /\ m_subBBox = {}
    /\ m_schema = Null
    /\ m_compress = FALSE
    /\ m_reprojection = {}
    /\ m_trustHeaders = TRUE
    /\ m_srs = ""
    /\ totalThreads = 1
    /\ sleepCount = SleepCountMulti
    /\ m_manifest = Null
    /\ m_stats = NewStats
    /\ m_pool = [queue |-> << >>, running |-> FALSE]
    /\ clipPool = 0
    /\ wk = [w \in 1 .. 1 |-> IdleWorker]
    /\ mainPc = "ready"
    /\ lastCall = [ret |-> "none"]
    /\ calls = 0
    /\ saves = 0
    /\ faults = 0
    /\ inputs = {}
    /\ queued = {}
    /\ delivered = {}
    /\ outcome = {}
    /\ infoPool = << >>
    /\ scan = NoScan
    /\ fetch = NoFetch

NextMerge ==
    \/ merge
    \/ mergeThrows

SpecMerge == InitMerge /\ [][NextMerge]_vars

(* --------------------------------- Scan -------------------------------- *)

\* Bounds::expander(): min at the largest value, max at the lowest.
Expander == [min |-> <<ZLimit, ZLimit, ZLimit>>, max |-> <<-ZLimit, -ZLimit, -ZLimit>>]

\* Bounds::grow(point) and Bounds::grow(bounds).
GrowPoint(b, p) ==
    [min |-> [i \in 1 .. 3 |-> Min2(b.min[i], p[i])],
     max |-> [i \in 1 .. 3 |-> Max2(b.max[i], p[i])]]
GrowBounds(b, other) ==
    [min |-> [i \in 1 .. 3 |-> Min2(b.min[i], other.min[i])],
     max |-> [i \in 1 .. 3 |-> Max2(b.max[i], other.max[i])]]

\* Scales are counted in hundredths: a Scale of 1 is <<100, 100, 100>>.
ScaleOne == <<100, 100, 100>>

\* Faulty variant of ScaleMin: the scale of the last file wins.
ScaleLast(a, b) == b

\* Point::min, component by component.
ScaleMin(a, b) == [i \in 1 .. 3 |-> Min2(a[i], b[i])]

\* FileInfo as the input list gives it: no point count, no bounds, no srs.
NewFileInfo(kind) == [path |-> kind, numPoints |-> 0, bounds |-> {}, srs |-> ""]

\* What the collaborators say of each input path: whether Executor::good
\* accepts it, what Executor::preview returns for it (none, or the header's
\* point count, bounds, scale and srs), the points Executor::run streams and
\* whether it returns true.
ScanFile(kind) ==
    CASE kind = "ok" ->
            [good |-> TRUE,
             preview |-> {[numPoints |-> 2,
                           bounds |-> [min |-> <<1, 1, 1>>, max |-> <<3, 2, 2>>],
                           scale |-> {<<10, 10, 10>>}, srs |-> "srs-ok"]},
             points |-> << <<1, 1, 1>>, <<3, 2, 2>> >>, run |-> TRUE]
      [] kind = "lying" ->
            [good |-> TRUE,
             preview |-> {[numPoints |-> 3,
                           bounds |-> [min |-> <<0, 0, 0>>, max |-> <<9, 9, 9>>],
                           scale |-> {<<100, 1, 100>>}, srs |-> "srs-lying"]},
             points |-> << <<5, 5, 5>>, <<6, 7, 5>> >>, run |-> TRUE]
      [] kind = "zeroHeader" ->
            [good |-> TRUE,
             preview |-> {[numPoints |-> 0,
                           bounds |-> [min |-> <<0, 0, 0>>, max |-> <<0, 0, 0>>],
                           scale |-> {}, srs |-> "srs-zero"]},
             points |-> << <<4, 4, 4>>, <<8, 1, 2>> >>, run |-> TRUE]
      [] kind = "noPreview" ->
            [good |-> TRUE, preview |-> {},
             points |-> << <<2, 8, 3>> >>, run |-> TRUE]
      [] kind = "unreadable" ->
            [good |-> TRUE,
             preview |-> {[numPoints |-> 2,
                           bounds |-> [min |-> <<2, 2, 2>>, max |-> <<4, 4, 4>>],
                           scale |-> {}, srs |-> "srs-unreadable"]},
             points |-> << <<2, 2, 2>> >>, run |-> FALSE]
      [] kind = "badScale" ->
            [good |-> TRUE,
             preview |-> {[numPoints |-> 2,
                           bounds |-> [min |-> <<1, 1, 1>>, max |-> <<2, 2, 2>>],
                           scale |-> {<<10, 0, 10>>}, srs |-> "srs-bad"]},
             points |-> << <<1, 1, 1>>, <<2, 2, 2>> >>, run |-> TRUE]
      [] kind = "hollow" ->
            [good |-> TRUE,
             preview |-> {[numPoints |-> 3,
                           bounds |-> [min |-> <<0, 0, 0>>, max |-> <<7, 7, 7>>],
                           scale |-> {}, srs |-> "srs-hollow"]},
             points |-> << >>, run |-> TRUE]
      [] kind = "empty" ->
            [good |-> TRUE,
             preview |-> {[numPoints |-> 0,
                           bounds |-> [min |-> <<0, 0, 0>>, max |-> <<0, 0, 0>>],
                           scale |-> {}, srs |-> ""]},
             points |-> << >>, run |-> TRUE]
      [] OTHER ->
            [good |-> FALSE, preview |-> {}, points |-> << >>, run |-> FALSE]

ScanKinds == {"ok", "lying", "zeroHeader", "noPreview", "unreadable", "badScale",
              "hollow", "empty", "notGood"}

ThePreview(kind) == CHOOSE pv \in ScanFile(kind).preview : TRUE

\* The scale of a preview: its own, or 1.
PreviewScale(pv) == IF pv.scale = {} THEN ScaleOne ELSE CHOOSE sc \in pv.scale : TRUE

ScaleInvalid(sc) == sc[1] = 0 \/ sc[2] = 0 \/ sc[3] = 0

\* The bounds that the reader's callback has grown over the streamed points.
RECURSIVE StreamedBounds(_, _)
StreamedBounds(points, i) ==
    IF i = 0 THEN Expander ELSE GrowPoint(StreamedBounds(points, i - 1), points[i])

ScanThreads == 1 .. 2
IdleScanTask == [pc |-> "idle", file |-> 0]

\* The Scan object after its constructor, for a configuration with the
\* given input list and trustHeaders.
NewScan(input, trust) ==
    [in |-> [input |-> input, trustHeaders |-> trust],
     m_pool |-> FALSE, m_done |-> FALSE,
     m_fileInfo |-> << >>, m_index |-> 0,
     m_schema |-> {}, m_scale |-> ScaleOne,
     queue |-> << >>, task |-> [t \in ScanThreads |-> IdleScanTask],
     thrown |-> FALSE,
     pc |-> "idle", calls |-> 0, ran |-> {}, streamed |-> {},
     result |-> [kind |-> "none"]]

\* Faulty variant of GoRefused: a second call is let through.
GoRefusedNever(sc) == FALSE

\* go(), its first statement: a Scan that has a pool or is done refuses.
GoRefused(sc) == sc.m_pool \/ sc.m_done

\* go() is called. A refused call throws; otherwise the pool is created and
\* the input list is copied to m_fileInfo.
ScanGo ==
    /\ scan.pc \in {"idle", "returned", "failed"}
    /\ scan.calls < MaxGoCalls
    /\ scan' = IF GoRefused(scan)
               THEN [scan EXCEPT !.calls = @ + 1, !.pc = "failed",
                                 !.result = [kind |-> "Cannot call Scan::go twice"]]
               ELSE [scan EXCEPT !.calls = @ + 1, !.pc = "adding",
                                 !.m_pool = TRUE,
                                 !.m_fileInfo = [i \in 1 .. Len(scan.in.input) |->
                                                   NewFileInfo(scan.in.input[i])],
                                 !.m_index = 0,
                                 !.result = [kind |-> "none"]]
    /\ UNCHANGED <<builderVars, fetch>>

\* go(), one turn of its loop: add(f) queues a task for a file that
\* Executor::good accepts. The pool's queue holds one task.
ScanAdd ==
    /\ scan.pc = "adding"
    /\ scan.m_index < Len(scan.m_fileInfo)
    /\ LET i == scan.m_index + 1
       IN  IF ScanFile(scan.m_fileInfo[i].path).good
           THEN /\ Len(scan.queue) < 1
                /\ scan' = [scan EXCEPT !.m_index = i, !.queue = Append(@, i)]
           ELSE scan' = [scan EXCEPT !.m_index = i]
    /\ UNCHANGED <<builderVars, fetch>>

\* A pool thread takes the next task and runs add(f, localPath) down to the
\* lock: the preview sets the file's point count and srs, returns at once
\* for a header of no points, sets the bounds and throws on a scale with a
\* zero component.
ScanTaskPreview(t) ==
    /\ scan.task[t].pc = "idle"
    /\ scan.queue # << >>
    /\ LET i == Head(scan.queue)
           kind == scan.m_fileInfo[i].path
           taken == [scan EXCEPT !.queue = Tail(@), !.ran = @ \cup {i}]
       IN  scan' =
             IF ScanFile(kind).preview = {}
             THEN [taken EXCEPT !.task[t] = [pc |-> "reader", file |-> i]]
             ELSE LET pv == ThePreview(kind)
                      counted == [taken EXCEPT
                                    !.m_fileInfo[i].numPoints = pv.numPoints,
                                    !.m_fileInfo[i].srs = pv.srs]
                  IN  IF pv.numPoints = 0
                      THEN counted
                      ELSE IF ScaleInvalid(PreviewScale(pv))
                           THEN [counted EXCEPT
                                   !.m_fileInfo[i].bounds = {pv.bounds},
                                   !.thrown = TRUE]
                           ELSE [counted EXCEPT
                                   !.m_fileInfo[i].bounds = {pv.bounds},
                                   !.task[t] = [pc |-> "lock", file |-> i]]
    /\ UNCHANGED <<builderVars, fetch>>

\* Under the mutex: the schema and the scale of the file are merged in.
ScanTaskMerge(t) ==
    /\ scan.task[t].pc = "lock"
    /\ LET i == scan.task[t].file
           pv == ThePreview(scan.m_fileInfo[i].path)
       IN  scan' = [scan EXCEPT
                      !.m_schema = @ \cup {scan.m_fileInfo[i].path},
                      !.m_scale = ScaleMin(@, PreviewScale(pv)),
                      !.task[t] = [pc |-> "reader", file |-> i]]
    /\ UNCHANGED <<builderVars, fetch>>

\* The end of add(f, localPath): with untrusted headers the reader streams
\* the file, and its count and bounds replace the file's when it returns
\* true with a count above zero.
ScanTaskReader(t) ==
    /\ scan.task[t].pc = "reader"
    /\ LET i == scan.task[t].file
           file == ScanFile(scan.m_fileInfo[i].path)
           np == Len(file.points)
           over == [scan EXCEPT !.task[t] = IdleScanTask,
                                !.streamed = IF scan.in.trustHeaders THEN @
                                             ELSE @ \cup {i}]
       IN  scan' =
             IF ~scan.in.trustHeaders /\ file.run /\ np # 0
             THEN [over EXCEPT
                     !.m_fileInfo[i].numPoints = np,
                     !.m_fileInfo[i].bounds = {StreamedBounds(file.points, np)}]
             ELSE over
    /\ UNCHANGED <<builderVars, fetch>>

\* aggregate(), its loop: the sum of the files' point counts, the union of
\* the bounds of the files that have points, the first srs of such a file.
RECURSIVE AggregateLoop(_, _)
AggregateLoop(info, i) ==
    IF i = 0
    THEN [np |-> 0, bounds |-> Expander, srs |-> ""]
    ELSE LET acc == AggregateLoop(info, i - 1)
             f == info[i]
         IN  IF f.numPoints # 0
             THEN [np |-> acc.np + f.numPoints,
                   bounds |-> IF f.bounds = {} THEN acc.bounds
                              ELSE GrowBounds(acc.bounds, CHOOSE b \in f.bounds : TRUE),
                   srs |-> IF acc.srs = "" THEN f.srs ELSE acc.srs]
             ELSE acc

\* Faulty variant of NoPointsFound: the sum is not tested.
NoPointsFoundNever(np) == FALSE

\* aggregate(), its test of the sum.
NoPointsFound(np) == np = 0

\* aggregate(): throws when no points were found, else returns the
\* configuration; the scale is written when it is not 1.
aggregate(sc) ==
    LET acc == AggregateLoop(sc.m_fileInfo, Len(sc.m_fileInfo))
    IN  IF NoPointsFound(acc.np)
        THEN [kind |-> "No points found!"]
        ELSE [kind |-> "config", numPoints |-> Max2(acc.np, 0),
              bounds |-> acc.bounds, srs |-> acc.srs,
              scale |-> IF sc.m_scale # ScaleOne THEN {sc.m_scale} ELSE {},
              schema |-> sc.m_schema, input |-> sc.m_fileInfo]

ScanPoolDrained ==
    scan.queue = << >> /\ \A t \in ScanThreads : scan.task[t].pc = "idle"

\* go() after its loop: the pool is joined, then aggregate() returns the
\* configuration or throws. A task that threw is fatal to the scan.
ScanJoin ==
    /\ scan.pc = "adding"
    /\ scan.m_index = Len(scan.m_fileInfo)
    /\ ScanPoolDrained
    /\ scan' = IF scan.thrown
               THEN [scan EXCEPT !.pc = "failed", !.result = [kind |-> "Invalid scale"]]
               ELSE LET out == aggregate(scan)
                    IN  [scan EXCEPT
                           !.pc = IF out.kind = "config" THEN "returned" ELSE "failed",
                           !.result = out]
    /\ UNCHANGED <<builderVars, fetch>>

\* A process that owns a Scan object for some input list, and no build.
InitScan ==
    /\ \E input \in {<< >>} \cup {<<k>> : k \in ScanKinds}
                        \cup {<<k1, k2>> : k1, k2 \in ScanKinds},
          trust \in BOOLEAN :
            scan = NewScan(input, trust)
    /\ inputs = {}
    /\ subsets = << >>
    /\ whole = << >>
    /\ m_structure = Null
    /\ m_bbox = Null
    /\ m_subBBox = {}
    /\ m_schema = Null
    /\ m_compress = FALSE
    /\ m_reprojection = {}
    /\ m_trustHeaders = FALSE
    /\ m_srs = ""
    /\ totalThreads = 1
    /\ sleepCount = SleepCountMulti
    /\ m_manifest = Null
    /\ m_stats = NewStats
    /\ m_pool = [queue |-> << >>, running |-> FALSE]
    /\ clipPool = 0
    /\ wk = << >>
    /\ chunks = << >>
    /\ cells = << >>
    /\ endpoint = [chunks |-> {}, cells |-> << >>, meta |-> NoMeta]
    /\ mainPc = "scanning"
    /\ lastCall = [ret |-> "none"]
    /\ calls = 0
    /\ saves = 0
    /\ faults = 0
    /\ queued = {}
    /\ delivered = {}
    /\ outcome = {}
    /\ infoPool = << >>
    /\ fetch = NoFetch

NextScan ==
    \/ ScanGo
    \/ ScanAdd
    \/ \E t \in ScanThreads : ScanTaskPreview(t)
    \/ \E t \in ScanThreads : ScanTaskMerge(t)
    \/ \E t \in ScanThreads : ScanTaskReader(t)
    \/ ScanJoin

SpecScan == InitScan /\ [][NextScan]_vars

(* ------------------- insert(path) without bounds ---------------------- *)

\* The points a reader run over the file yields, batch after batch.
RECURSIVE FilePoints(_)
FilePoints(batches) ==
    IF batches = << >> THEN << >> ELSE Head(batches) \o FilePoints(Tail(batches))

\* infer(path), the bounder: the box grown by every point of the run.
RECURSIVE Bounder(_, _)
Bounder(b, points) ==
    IF points = << >> THEN b ELSE Bounder(GrowPoint(b, Head(points)), Tail(points))

\* infer(path), the bounds read from the header: the trusted header has them.
InferFromHeader(path) == m_trustHeaders /\ HasPreview(path)

\* infer(path), the BBox it builds: floor of the minimum and ceil of the
\* maximum. x and y are whole numbers here, z is counted in halves.
inferBBox(path) ==
    LET b == IF InferFromHeader(path) THEN PreviewBounds(path)
             ELSE Bounder(Expander, FilePoints(FileBatches(path)))
    IN  BBox(<<b.min[1], b.min[2], Floor2(b.min[3])>>,
             <<b.max[1], b.max[2], Ceil2(b.max[3])>>, Is3d)

\* insert(path), origin 0 of a Builder without bounds: infer(path) sets the
\* srs and the bounds, then the per-file task is queued.
InsertInferred(path) ==
    /\ Good(path)
    /\ OriginFor(m_manifest, path) = 0
    /\ m_bbox = Null
    /\ m_manifest' = AddOrigin(m_manifest, path)
    /\ m_srs' = infer(path)
    /\ m_bbox' = inferBBox(path)
    /\ m_pool' = [m_pool EXCEPT !.queue = Append(@, Task(0, path))]
    /\ queued' = queued \cup {0}
    /\ lastCall' = [ret |-> "true"]
    /\ UNCHANGED faults

\* insert(path), origin 0 of a Builder without bounds, and the reader run of
\* infer(path) returns false: "Error inferring bounds" leaves insert after
\* addOrigin and before m_pool->add.
InsertInferFails(path) ==
    /\ Good(path)
    /\ OriginFor(m_manifest, path) = 0
    /\ m_bbox = Null
    /\ ~InferFromHeader(path)
    /\ faults < MaxFaults
    /\ faults' = faults + 1
    /\ m_manifest' = AddOrigin(m_manifest, path)
    /\ m_srs' = infer(path)
    /\ lastCall' = [ret |-> "throw"]
    /\ UNCHANGED <<m_bbox, m_pool, queued>>

\* insert(path) on a Builder that was constructed without bounds.
InsertUnbounded(path) ==
    /\ path \in inputs
    /\ mainPc = "ready"
    /\ calls < MaxInserts
    /\ calls' = calls + 1
    /\ \/ InsertOmitted(path) /\ UNCHANGED m_bbox
       \/ InsertDuplicate(path) /\ UNCHANGED m_bbox
       \/ InsertInferred(path)
       \/ InsertInferFails(path)
       \/ OriginFor(m_manifest, path) # 0 /\ InsertNew(path) /\ UNCHANGED m_bbox
    /\ UNCHANGED <<configVars, m_stats, wk, registryVars, mainPc, saves,
                   delivered, outcome, infoPool>>

\* A Builder constructed with no bounds, before its first insert.
InitInfer ==
    \E ps \in {{"a", "b", "bad"}, {"a", "b", "c"}, {"b", "c", "bad"}} :
        BuiltWith(ps, FALSE)

NextInfer == \E path \in Paths : InsertUnbounded(path)

SpecInfer == InitInfer /\ [][NextInfer]_vars

(* ------------------- SleepyTree::fetchAndWriteFile -------------------- *)

httpAttempts == 3

\* The codes m_s3->get answers with.
HttpCodes == {200, 403, 404, 500}

\* The local path: "./tmp/" + name() + "-" + origin.
LocalPath(origin) == <<"./tmp/", "name", origin>>

\* A SleepyTree asked to fetch the remote file of an origin; no local file
\* is there yet.
NewFetch(origin) ==
    [origin |-> origin, pc |-> "idle", tries |-> 0, res |-> 0, gets |-> << >>,
     file |-> {}, writes |-> 0, result |-> [kind |-> "none"]]

\* Faulty variant of FetchAgain: the attempts are counted from one too low.
FetchAgainOnceMore(code, tries) == code # 200 /\ tries + 1 <= httpAttempts

\* The condition of the do-while: res.code() != 200 && ++tries < httpAttempts.
FetchAgain(code, tries) == code # 200 /\ tries + 1 < httpAttempts

\* fetchAndWriteFile is called: tries(0), then the loop is entered.
FetchCall ==
    /\ fetch.pc = "idle"
    /\ fetch' = [fetch EXCEPT !.pc = "get"]
    /\ UNCHANGED <<builderVars, scan>>

\* One turn of the loop: the GET, then the condition, whose ++tries is
\* reached only when the code is not 200.
FetchGet ==
    /\ fetch.pc = "get"
    /\ \E code \in HttpCodes :
          fetch' = [fetch EXCEPT
                      !.res = code,
                      !.gets = Append(@, code),
                      !.tries = IF code # 200 THEN @ + 1 ELSE @,
                      !.pc = IF FetchAgain(code, fetch.tries) THEN "get" ELSE "fetched"]
    /\ UNCHANGED <<builderVars, scan>>

\* After the loop, a code other than 200: "Couldn't fetch" is thrown.
FetchThrows ==
    /\ fetch.pc = "fetched"
    /\ fetch.res # 200
    /\ fetch' = [fetch EXCEPT !.pc = "thrown",
                              !.result = [kind |-> "Couldn't fetch"]]
    /\ UNCHANGED <<builderVars, scan>>

\* After the loop, code 200: fs::writeFile of the response's data to the
\* local path; when it answers false, "Couldn't write" is thrown, otherwise
\* the local path is returned.
FetchWriteFile ==
    /\ fetch.pc = "fetched"
    /\ fetch.res = 200
    /\ \E ok \in BOOLEAN :
          fetch' = [fetch EXCEPT
                      !.writes = @ + 1,
                      !.file = IF ok THEN {[path |-> LocalPath(fetch.origin),
                                            code |-> fetch.res,
                                            get |-> Len(fetch.gets)]}
                               ELSE @,
                      !.pc = IF ok THEN "returned" ELSE "thrown",
                      !.result = IF ok THEN [kind |-> "path",
                                             path |-> LocalPath(fetch.origin)]
                                 ELSE [kind |-> "Couldn't write"]]
    /\ UNCHANGED <<builderVars, scan>>

\* A SleepyTree about to fetch the remote file of origin 0 or 1.
InitFetch ==
    /\ \E origin \in 0 .. 1 : fetch = NewFetch(origin)
    /\ scan = NoScan
    /\ inputs = {}
    /\ subsets = << >>
    /\ whole = << >>
    /\ m_structure = Null
    /\ m_bbox = Null
    /\ m_subBBox = {}
    /\ m_schema = Null
    /\ m_compress = FALSE
    /\ m_reprojection = {}
    /\ m_trustHeaders = FALSE
    /\ m_srs = ""
    /\ totalThreads = 1
    /\ sleepCount = SleepCountMulti
    /\ m_manifest = Null
    /\ m_stats = NewStats
    /\ m_pool = [queue |-> << >>, running |-> FALSE]
    /\ clipPool = 0
    /\ wk = << >>
    /\ chunks = << >>
    /\ cells = << >>
    /\ endpoint = [chunks |-> {}, cells |-> << >>, meta |-> NoMeta]
    /\ mainPc = "fetching"
    /\ lastCall = [ret |-> "none"]
    /\ calls = 0
    /\ saves = 0
    /\ faults = 0
    /\ queued = {}
    /\ delivered = {}
    /\ outcome = {}
    /\ infoPool = << >>

NextFetch ==
    \/ FetchCall
    \/ FetchGet
    \/ FetchThrows
    \/ FetchWriteFile

SpecFetch == InitFetch /\ [][NextFetch]_vars

(* ------------------------------ properties ----------------------------- *)

Tags == {"placed", "fallThrough", "outOfBounds", "outOfSubset",
         "headerOutOfBounds", "headerOutOfSubset"}

\* The points recorded with a given outcome.
Tagged(t) == {e[1] : e \in {x \in outcome : x[2] = t}}

PathOf(origin) == m_manifest.paths[origin + 1]
Pt(id) == FileBatches(PathOf(id[1]))[id[2]][id[3]]

\* The points of the files a task went through: those the reader delivered
\* and those of the files skipped on their header.
Processed == delivered \cup Tagged("headerOutOfBounds") \cup Tagged("headerOutOfSubset")

RECURSIVE SumPoints(_)
SumPoints(ps) == IF ps = << >> THEN 0 ELSE FileNumPoints(Head(ps)) + SumPoints(Tail(ps))

OmittedPoints == SumPoints(m_manifest.omissions)

Counted == m_stats.numPoints + m_stats.numFallThroughs + m_stats.numOutOfBounds

\* Points inside the global bounds that the subset build leaves to another
\* subset: by their own position, or by their file's header.
OutsideSubset ==
    {id \in delivered : Contains(m_bbox, Pt(id)) /\ ~InSubset(Pt(id))}
        \cup Tagged("headerOutOfSubset")

\* A delivered point that insert(view) has not yet dealt with.
Pending(id) ==
    \E w \in Workers :
        /\ wk[w].pc \in {"point", "fetch", "load", "cell"}
        /\ wk[w].origin = id[1]
        /\ wk[w].batch = id[2]
        /\ wk[w].idx <= id[3]

\* The cell of node n as the registry holds it: in memory while the chunk is
\* resident or being written, at the endpoint otherwise.
Stored(n) ==
    IF \/ ChunkIdOf(Is3d, n) = BaseId
       \/ chunks[ChunkIdOf(Is3d, n)].state \in {"resident", "writing"}
    THEN cells[n]
    ELSE endpoint.cells[n]

StoredAt(id) == {n \in Nodes(Is3d) : Stored(n) = id}

RECURSIVE ClimbTo(_, _)
ClimbTo(p, d) == IF d = 0 THEN NewClimber(m_bbox) ELSE Down(Is3d, ClimbTo(p, d - 1), p)

\* The nodes addPoint visits for a point, one per depth.
PathNodes(p) == {ClimbTo(p, d).index : d \in 0 .. (TotalDepth - 1)}

Holders(c) == {w \in Workers : c \in wk[w].clipper}
Loaders(c) == {w \in Workers : wk[w].pc = "load" /\ CurChunk(w) = c}

(* C1, as stated: after join(), in every configuration, the points of the   *)
(* processed files number numPoints + numFallThroughs + numOutOfBounds plus *)
(* the points of the omitted files.                                         *)
C1_TotalEqualsCounters ==
    mainPc = "joined" => Cardinality(Processed) = Counted + OmittedPoints

(* C1: after join(), every point of a processed file has exactly one        *)
(* outcome, and the points of the processed files number numPoints +        *)
(* numFallThroughs + numOutOfBounds + the points of omitted files + the     *)
(* points inside the global bounds that a subset build leaves uncounted     *)
(* (outside the subset bounds, by position or by header); a whole build     *)
(* has no such points.                                                      *)
C1_CountedExceptOutsideSubset ==
    mainPc = "joined" =>
        /\ \A id \in Processed : Cardinality({t \in Tags : <<id, t>> \in outcome}) = 1
        /\ Cardinality(Processed) = Counted + OmittedPoints + Cardinality(OutsideSubset)
        /\ (m_subBBox = {} => OutsideSubset = {})

C1_SubsetBuildJoined ==
    /\ mainPc = "joined"
    /\ m_subBBox # {}
    /\ OutsideSubset # {}
    /\ m_stats.numPoints > 0

(* C2: a point inside the bounds that addPoint has dealt with is either     *)
(* stored in exactly one cell, on its own path, or stored nowhere with every *)
(* cell of its path occupied and counted as one fall-through; the climber   *)
(* never reaches totalDepth.                                                *)
C2_PlacedOnceOrFallThrough ==
    LET placed == Tagged("placed")
        fell == Tagged("fallThrough")
        occupied == {n \in Nodes(Is3d) : Stored(n) # NoPoint}
    IN  /\ \A id \in placed :
              /\ id \notin fell
              /\ \E n \in PathNodes(Pt(id)) :
                    /\ Stored(n) = id
                    /\ \A m \in occupied : Stored(m) = id => m = n
        /\ \A id \in fell :
              /\ PathNodes(Pt(id)) \subseteq occupied
              /\ \A m \in occupied : Stored(m) # id
        /\ \A id \in delivered \ (placed \cup fell) :
              Pending(id) \/ ~Contains(m_bbox, Pt(id)) \/ ~InSubset(Pt(id))
        /\ m_stats.numPoints = Cardinality(placed)
        /\ m_stats.numFallThroughs = Cardinality(fell)
        /\ \A w \in Workers :
              wk[w].pc \in {"fetch", "load", "cell"} => wk[w].climber.depth < TotalDepth

C2_FellThroughBelowPlaced ==
    /\ Tagged("fallThrough") # {}
    /\ \E id \in Tagged("placed") : \E n \in StoredAt(id) : n >= BaseEnd(Is3d)

(* C3: a worker that tries a cell claims it exactly when the cell is empty;  *)
(* an occupied cell keeps its occupant until its chunk is destroyed; the     *)
(* worker that finds the cell occupied descends one level or falls through; *)
(* no point is stored in two cells.                                         *)
C3_FirstWriterWins ==
    /\ [](\A id \in Tagged("placed") : Cardinality({n \in DOMAIN cells : cells[n] = id}) <= 1)
    /\ [][/\ \A n \in DOMAIN cells :
                cells[n] # NoPoint =>
                    \/ cells'[n] = cells[n]
                    \/ /\ ChunkIdOf(Is3d, n) # BaseId
                       /\ chunks[ChunkIdOf(Is3d, n)].state = "writing"
                       /\ chunks'[ChunkIdOf(Is3d, n)].state = "absent"
          /\ \A w \in Workers :
                (wk[w].pc = "cell" /\ wk'[w] # wk[w]) =>
                    IF cells[wk[w].climber.index] = NoPoint
                    THEN /\ cells'[wk[w].climber.index] = CurId(w)
                         /\ <<CurId(w), "placed">> \in outcome'
                    ELSE /\ cells' = cells
                         /\ <<CurId(w), "placed">> \notin outcome'
                         /\ \/ /\ wk'[w].pc \in {"fetch", "cell"}
                               /\ wk'[w].climber.depth = wk[w].climber.depth + 1
                            \/ <<CurId(w), "fallThrough">> \in outcome']_vars

C3_TwoWorkersSameEmptyCell ==
    \E w \in Workers : \E v \in Workers :
        /\ w # v
        /\ wk[w].pc = "cell" /\ wk[v].pc = "cell"
        /\ wk[w].climber.index = wk[v].climber.index
        /\ cells[wk[w].climber.index] = NoPoint

(* C4: for each chunk id at most one chunk object is in memory or being     *)
(* built: at most one worker loads it, and only while it is marked loading; *)
(* every clipper that references the id references the one resident chunk.  *)
C4_OneChunkObjectPerId ==
    \A c \in DOMAIN chunks :
        /\ Cardinality(Loaders(c)) + (IF chunks[c].state \in {"resident", "writing"} THEN 1 ELSE 0) <= 1
        /\ (chunks[c].state = "loading") = (Loaders(c) # {})
        /\ (Holders(c) # {} => chunks[c].state = "resident")
        /\ (chunks[c].state # "resident" =>
               \A n \in ChunkNodes(Is3d, c) : cells[n] = NoPoint \/ chunks[c].state = "writing")

C4_LoaderAndWaiter ==
    \E w \in Workers : \E v \in Workers :
        /\ wk[w].pc = "load"
        /\ wk[v].pc = "fetch"
        /\ CurChunk(v) = CurChunk(w)

(* C5: a worker that asks for a chunk being written or loaded does not go   *)
(* on; a chunk is written, or absent from memory, only with no reference to *)
(* it; every placed point is in the registry's copy of its cell, and a      *)
(* chunk read back holds the cells that were written.                       *)
C5_EvictionKeepsCells ==
    /\ [](/\ \A id \in Tagged("placed") : StoredAt(id) # {}
          /\ \A c \in DOMAIN chunks :
                chunks[c].state # "resident" => (chunks[c].refs = 0 /\ Holders(c) = {}))
    /\ [][/\ \A w \in Workers :
                (wk[w].pc = "fetch" /\ chunks[CurChunk(w)].state \in {"writing", "loading"})
                    => wk'[w] = wk[w]
          /\ \A c \in DOMAIN chunks :
                /\ (chunks[c].state = "writing" /\ chunks'[c].state # "writing") =>
                      /\ chunks'[c].state = "absent"
                      /\ c \in endpoint'.chunks
                      /\ \A n \in ChunkNodes(Is3d, c) : endpoint'.cells[n] = cells[n]
                /\ (chunks[c].state = "loading" /\ chunks'[c].state # "loading"
                    /\ c \in endpoint.chunks) =>
                      \A n \in ChunkNodes(Is3d, c) : cells'[n] = endpoint.cells[n]]_vars

C5_ReloadedWithEvictedCell ==
    \E c \in DOMAIN chunks :
        /\ chunks[c].state = "resident"
        /\ c \in endpoint.chunks
        /\ \E n \in ChunkNodes(Is3d, c) : cells[n] # NoPoint /\ cells[n] = endpoint.cells[n]

C7_RefsCountClippers ==
    \A c \in DOMAIN chunks :
        /\ chunks[c].refs >= 0
        /\ chunks[c].refs = Cardinality(Holders(c))

C7_SameClipperSecondPoint ==
    \E w \in Workers :
        /\ wk[w].pc = "cell"
        /\ wk[w].batch = 2
        /\ CurChunk(w) # BaseId
        /\ CurChunk(w) \in wk[w].clipper
        /\ chunks[CurChunk(w)].refs = 1
        /\ \E n \in ChunkNodes(Is3d, CurChunk(w)) :
              cells[n] # NoPoint /\ cells[n][1] = wk[w].origin /\ cells[n][2] = 1

(* C8: a failure in a per-file task records its origin as errored and       *)
(* changes neither the caller's position, the pool's running flag nor any   *)
(* other task; once join() has returned, every queued origin is errored or  *)
(* has had all of its points dealt with.                                    *)
C8_FailureStaysInItsTask ==
    /\ [](/\ m_manifest.errors \subseteq queued
          /\ mainPc = "joined" =>
                \A o \in queued :
                    \/ o \in m_manifest.errors
                    \/ \A id \in FilePointIds(o, PathOf(o)) :
                          \E t \in Tags : <<id, t>> \in outcome)
    /\ [][m_manifest'.errors # m_manifest.errors =>
            /\ mainPc' = mainPc
            /\ lastCall' = lastCall
            /\ m_pool'.running = m_pool.running
            /\ \A v \in Workers :
                  (wk[v].pc # "idle" /\ wk[v].origin \notin m_manifest'.errors)
                      => wk'[v] = wk[v]
            /\ \A i \in 1 .. Len(m_pool.queue) :
                  m_pool.queue[i].origin \notin m_manifest'.errors
                      => SeqHas(m_pool'.queue, m_pool.queue[i])]_vars

C8_JoinedWithErrorAndOtherFileDone ==
    /\ mainPc = "joined"
    /\ m_manifest.errors # {}
    /\ \E o \in queued \ m_manifest.errors :
          \E id \in FilePointIds(o, PathOf(o)) : <<id, "placed">> \in outcome

(* C9: insert(path) for a path that already has an origin in the manifest   *)
(* returns false and leaves the manifest, the stats, the work pool and the  *)
(* tasks as they were.                                                      *)
C9_DuplicateChangesNothing ==
    [][\A path \in Paths :
          (Insert(path) /\ SeqHas(m_manifest.paths, path)) =>
              /\ lastCall'.ret = "false"
              /\ UNCHANGED <<m_manifest, m_stats, m_pool, m_srs, m_bbox, wk, queued,
                             registryVars>>]_vars

C9_AfterDuplicate ==
    /\ calls = 2
    /\ Len(m_manifest.paths) = 1
    /\ m_manifest.omissions = << >>
    /\ lastCall.ret = "false"

(* C10: insert(path) for a path the reader rejects returns false, appends   *)
(* the path to the omissions, gives it no origin and queues no task; an     *)
(* insert of a new readable path gets the next origin whatever was omitted  *)
(* before, and when it returns true its task is queued.                     *)
C10_UnreadableIsOmitted ==
    [][\A path \in Paths :
          /\ (Insert(path) /\ ~Good(path)) =>
                /\ lastCall'.ret = "false"
                /\ m_manifest'.omissions = Append(m_manifest.omissions, path)
                /\ m_manifest'.paths = m_manifest.paths
                /\ m_manifest'.errors = m_manifest.errors
                /\ UNCHANGED <<m_pool, queued, m_stats>>
          /\ (Insert(path) /\ Good(path) /\ ~SeqHas(m_manifest.paths, path)) =>
                /\ m_manifest'.paths = Append(m_manifest.paths, path)
                /\ m_manifest'.omissions = m_manifest.omissions
                /\ lastCall'.ret \in {"true", "throw"}
                /\ lastCall'.ret = "true" =>
                      m_pool'.queue =
                          Append(m_pool.queue, Task(Len(m_manifest.paths), path))]_vars

C10_InsertAfterOmission ==
    /\ m_manifest.omissions # << >>
    /\ lastCall.ret = "true"
    /\ m_pool.queue # << >>

(* C11: with trustHeaders on, the task of a file whose header bounds miss   *)
(* the global bounds adds the header's point count to numOutOfBounds and    *)
(* ends there: numPoints and numFallThroughs, the cells, the chunks and the *)
(* endpoint are as before, and none of the file's points is ever delivered  *)
(* to insert(view).                                                         *)
C11_HeaderOutOfBoundsSkipsFile ==
    /\ [](\A id \in Tagged("headerOutOfBounds") : id \notin delivered)
    /\ [][\A w \in Workers :
            (/\ wk[w].pc = "preview"
             /\ wk'[w] # wk[w]
             /\ m_manifest'.errors = m_manifest.errors
             /\ HasPreview(wk[w].path)
             /\ ~Overlaps(PreviewBounds(wk[w].path), m_bbox)) =>
                /\ m_stats' = [m_stats EXCEPT
                                 !.numOutOfBounds = @ + PreviewNumPoints(wk[w].path)]
                /\ wk'[w].pc = "idle"
                /\ delivered' = delivered
                /\ UNCHANGED <<cells, chunks, endpoint>>]_vars

C11_SkippedOnHeader ==
    /\ m_trustHeaders
    /\ Tagged("headerOutOfBounds") # {}
    /\ m_stats.numOutOfBounds = 2
    /\ m_stats.numPoints > 0

\* The per-file task of origin o has been run to its end.
TaskOver(o) ==
    /\ o \in queued
    /\ \A i \in 1 .. Len(m_pool.queue) : m_pool.queue[i].origin # o
    /\ \A w \in Workers : wk[w].origin # o

(* C12: with trustHeaders on, a file whose header overlaps the global       *)
(* bounds while all of its points lie outside them is read: every point of  *)
(* the file that insert(view) has dealt with is counted out of bounds once  *)
(* and stored in no cell, numPoints counts placed points only, and unless a *)
(* failure was injected the task delivers the whole file and leaves its     *)
(* origin neither errored nor omitted.                                      *)
C12_WrongHeaderFileIsRead ==
    /\ m_stats.numOutOfBounds =
          Cardinality(Tagged("outOfBounds")) + Cardinality(Tagged("headerOutOfBounds"))
    /\ m_stats.numPoints = Cardinality(Tagged("placed"))
    /\ (faults = 0 => m_manifest.errors = {})
    /\ ~SeqHas(m_manifest.omissions, "c")
    /\ \A o \in queued :
          PathOf(o) = "c" =>
              /\ \A id \in FilePointIds(o, "c") :
                    /\ StoredAt(id) = {}
                    /\ \A t \in Tags : <<id, t>> \in outcome => t = "outOfBounds"
                    /\ (id \in delivered /\ ~Pending(id)) => <<id, "outOfBounds">> \in outcome
              /\ (TaskOver(o) /\ o \notin m_manifest.errors) =>
                    FilePointIds(o, "c") \subseteq delivered

C12_WrongHeaderFileDone ==
    /\ mainPc = "joined"
    /\ m_manifest.errors = {}
    /\ m_stats.numOutOfBounds = FileNumPoints("c")
    /\ m_stats.numPoints > 0
    /\ \E o \in queued : PathOf(o) = "c" /\ FilePointIds(o, "c") \subseteq Tagged("outOfBounds")

(* C13: save() writes the metadata only in a state where the work pool has  *)
(* no queued and no running task, and writes the manifest and stats of that *)
(* state; the pool is closed only while it is drained; save() leaves the    *)
(* pool open, and every task queued, before or after a save, is run to its  *)
(* end.                                                                     *)
C13_SaveIsBarrier ==
    /\ [](~m_pool.running => PoolDrained)
    /\ [][saves' # saves =>
            /\ PoolDrained
            /\ endpoint'.meta.props.manifest = m_manifest
            /\ endpoint'.meta.props.stats = m_stats
            /\ UNCHANGED <<m_manifest, m_stats, wk, cells>>
            /\ m_pool'.running
            /\ mainPc' = "ready"]_vars
    /\ \A o \in 0 .. (MaxInserts - 1) : (o \in queued) ~> TaskOver(o)

C13_TaskRunsAfterSave ==
    /\ saves > 0
    /\ \E w \in Workers :
          /\ wk[w].pc = "cell"
          /\ wk[w].origin + 1 \notin DOMAIN endpoint.meta.props.manifest.paths

Merged == mainPc = "merged"

Occupied(cs) == {n \in DOMAIN cs : cs[n] # NoPoint}

\* The cells of a later subset whose occupant BaseChunk::merge leaves out.
Losers ==
    {kn \in (1 .. Len(subsets)) \X DOMAIN cells :
        /\ subsets[kn[1]].base[kn[2]] # NoPoint
        /\ \E j \in 1 .. (kn[1] - 1) : subsets[j].base[kn[2]] # NoPoint}

MergedTotalsMatch ==
    m_stats.numPoints + m_stats.numFallThroughs
        = whole.stats.numPoints + whole.stats.numFallThroughs

OnePointPerCell ==
    \A n1, n2 \in Occupied(endpoint.cells) :
        endpoint.cells[n1] = endpoint.cells[n2] => n1 = n2

SumOverSubsets(field) ==
    LET RECURSIVE Sum(_)
        Sum(k) == IF k = 0 THEN 0
                  ELSE Sum(k - 1) + subsets[k].meta.props.stats[field]
    IN  Sum(Len(subsets))

\* C15: after merge() the inserted and fallThrough counters are the sums of
\* the subsets' counters, outOfBounds is that of subset 0, these are the stats
\* written to the endpoint, and a merge that starts with a declared subset
\* count ends merged whether or not a subset's outOfBounds differs.
C15_MergedStats ==
    /\ Merged =>
        /\ m_stats.numPoints = SumOverSubsets("numPoints")
        /\ m_stats.numFallThroughs = SumOverSubsets("numFallThroughs")
        /\ m_stats.numOutOfBounds = subsets[1].meta.props.stats.numOutOfBounds
        /\ endpoint.meta.props.stats = m_stats
    /\ mainPc = "mergeFailed" => baseCount = 0

\* A merge over a subset whose outOfBounds differs from subset 0's, with
\* points inserted in two subsets and a fall-through.
C15_MergedWithMismatch ==
    /\ Merged
    /\ \E k \in 2 .. Len(subsets) :
        subsets[k].meta.props.stats.numOutOfBounds
            # subsets[1].meta.props.stats.numOutOfBounds
    /\ subsets[1].meta.props.stats.numOutOfBounds > 0
    /\ Cardinality({k \in 1 .. Len(subsets) :
                        subsets[k].meta.props.stats.numPoints > 0}) > 1
    /\ m_stats.numFallThroughs > 0

\* C19: the count of a task's points since its last Clipper stays below
\* sleepCount between batches and below sleepCount plus one batch within
\* one; the step that ends a batch replaces the Clipper exactly when the
\* count has reached sleepCount, then the count is 0, the new Clipper
\* references no chunk and every chunk of the old one has lost that
\* reference; otherwise count and Clipper stay as they are.
C19_ClipperRecycledAtSleepCount ==
    /\ [](\A w \in DOMAIN wk :
            /\ wk[w].pc = "run" => wk[w].count < sleepCount
            /\ wk[w].pc \in {"point", "fetch", "load", "cell", "batchEnd"}
                   => wk[w].count < sleepCount + Len(CurBatch(w)))
    /\ [][\A w \in DOMAIN wk :
            (wk[w].pc = "batchEnd" /\ wk'[w].pc # "batchEnd") =>
                IF wk[w].count >= sleepCount
                THEN /\ wk'[w].count = 0
                     /\ wk'[w].clipper = {}
                     /\ \A c \in wk[w].clipper : chunks'[c].refs = chunks[c].refs - 1
                ELSE /\ wk'[w].count = wk[w].count
                     /\ wk'[w].clipper = wk[w].clipper
                     /\ chunks' = chunks]_vars

\* A task between two batches whose Clipper has just been replaced, after it
\* stored a point in a cold chunk.
C19_RecycledBetweenBatches ==
    \E w \in DOMAIN wk :
        /\ wk[w].pc = "run"
        /\ wk[w].batch >= 1
        /\ wk[w].batch < Len(Batches(w))
        /\ wk[w].count = 0
        /\ wk[w].clipper = {}
        /\ \E n \in Nodes(Is3d) :
            /\ ChunkIdOf(Is3d, n) # BaseId
            /\ Stored(n) # NoPoint
            /\ Stored(n)[1] = wk[w].origin

\* C20 as stated: once the build is configured no step changes its
\* Structure, its Schema or its Bounds, in a 2D or a 3D build.
C20_ConfigurationImmutable ==
    [][/\ m_structure' = m_structure
       /\ m_schema' = m_schema
       /\ m_bbox' = m_bbox]_vars

\* C20: no step changes the Structure or the Schema, and none changes the
\* Bounds of a 3D build or the x and y extent of a 2D build; the Bounds of a
\* 2D build change only when a per-file task ends with its reader
\* successful, and then only by growing in z to cover the rounded z range of
\* the points the file placed.
C20_OnlyZGrowsIn2D ==
    [][/\ m_structure' = m_structure
       /\ m_schema' = m_schema
       /\ m_subBBox' = m_subBBox
       /\ \/ m_bbox' = m_bbox
          \/ /\ ~Is3d
             /\ m_manifest' = m_manifest
             /\ \E w \in DOMAIN wk :
                 /\ wk[w].pc = "run"
                 /\ wk'[w].pc = "idle"
                 /\ wk[w].batch = Len(Batches(w))
                 /\ m_bbox' = GrowZ(m_bbox, FileZRange(wk[w].zRange))
             /\ m_bbox'.min[1] = m_bbox.min[1] /\ m_bbox'.max[1] = m_bbox.max[1]
             /\ m_bbox'.min[2] = m_bbox.min[2] /\ m_bbox'.max[2] = m_bbox.max[2]
             /\ m_bbox'.min[3] <= m_bbox.min[3]
             /\ m_bbox'.max[3] >= m_bbox.max[3]]_vars

\* A 2D build whose Bounds have grown in z after a file was read in full.
C20_BoundsGrown ==
    /\ ~Is3d
    /\ m_bbox # GlobalBounds(FALSE)
    /\ m_bbox.max[3] > GlobalBounds(FALSE).max[3]
    /\ m_stats.numPoints > 0

Round47(total) == (47 * total + 50) \div 100

\* C18 as stated: for every totalThreads >= 0 the work pool has
\* max(round(total * 0.47), 1) threads and the clip pool
\* max(total - workThreads, 4), so at least 1 and at least 4, and the clip
\* pool has 4 whenever total - workThreads is below 4.
C18_ThreadBudget ==
    (mainPc # "constructing" /\ totalThreads >= 0) =>
        LET workThreads == Cardinality(DOMAIN wk)
        IN  /\ workThreads = Max2(Round47(totalThreads), 1)
            /\ clipPool = Max2(totalThreads - workThreads, 4)
            /\ workThreads >= 1
            /\ clipPool >= 4
            /\ totalThreads - workThreads < 4 => clipPool = 4

\* C18 from one thread on: the same budget for every totalThreads >= 1.
C18_ThreadBudgetFromOne ==
    (mainPc # "constructing" /\ totalThreads >= 1) =>
        LET workThreads == Cardinality(DOMAIN wk)
        IN  /\ workThreads = Max2(Round47(totalThreads), 1)
            /\ clipPool = Max2(totalThreads - workThreads, 4)
            /\ workThreads >= 1
            /\ clipPool >= 4
            /\ totalThreads - workThreads < 4 => clipPool = 4

\* A build has been constructed with totalThreads = 0.
C18_BuiltWithNoThreads ==
    /\ mainPc # "constructing"
    /\ totalThreads = 0
    /\ Cardinality(DOMAIN wk) = 1

C16_NoSubsetCountIsFatal ==
    [][(mainPc = "ready" /\ subsets # << >> /\ baseCount = 0 /\ mainPc' # mainPc)
        => /\ mainPc' = "mergeFailed"
           /\ endpoint' = endpoint
           /\ ~endpoint'.meta.written
           /\ endpoint'.chunks = {}]_vars

\* merge() has thrown on an endpoint that holds subset outputs with points.
C16_MergeFailed ==
    /\ mainPc = "mergeFailed"
    /\ baseCount = 0
    /\ \E k \in 1 .. Len(subsets) : Occupied(subsets[k].base) # {}
    /\ ~endpoint.meta.written

(* ------------------------------ Scan claims ---------------------------- *)

GoEnded == scan # NoScan /\ scan.calls = 1 /\ scan.pc \in {"returned", "failed"}

RECURSIVE SumNumPoints(_, _)
SumNumPoints(info, i) ==
    IF i = 0 THEN 0 ELSE SumNumPoints(info, i - 1) + info[i].numPoints

ScanTotal == SumNumPoints(scan.m_fileInfo, Len(scan.m_fileInfo))

HasInput(kind) == \E i \in 1 .. Len(scan.in.input) : scan.in.input[i] = kind

Readable(kind) == ScanFile(kind).good /\ ScanFile(kind).run

\* C22 as stated: with untrusted headers, when go() has ended, the reader
\* has run on every readable input and the file's point count and bounds
\* are those of the streamed points.
C22_UntrustedHeadersAreNotUsed ==
    (GoEnded /\ ~scan.in.trustHeaders /\ ~scan.thrown) =>
        \A i \in 1 .. Len(scan.m_fileInfo) :
            LET file == ScanFile(scan.m_fileInfo[i].path)
            IN  Readable(scan.m_fileInfo[i].path) =>
                    /\ i \in scan.streamed
                    /\ scan.m_fileInfo[i].numPoints = Len(file.points)
                    /\ file.points # << >> =>
                        scan.m_fileInfo[i].bounds
                            = {StreamedBounds(file.points, Len(file.points))}

\* C22 for the files it holds for: a readable input whose header declares
\* points, or that has no header, and whose stream is not empty.
C22_StreamedWhenHeaderHasPoints ==
    (GoEnded /\ ~scan.in.trustHeaders /\ ~scan.thrown) =>
        \A i \in 1 .. Len(scan.m_fileInfo) :
            LET file == ScanFile(scan.m_fileInfo[i].path)
            IN  (/\ Readable(scan.m_fileInfo[i].path)
                 /\ file.points # << >>
                 /\ \A pv \in file.preview : pv.numPoints # 0) =>
                    /\ i \in scan.streamed
                    /\ scan.m_fileInfo[i].numPoints = Len(file.points)
                    /\ scan.m_fileInfo[i].bounds
                            = {StreamedBounds(file.points, Len(file.points))}

\* go() has ended with untrusted headers on a file whose header declares no
\* points and whose stream has two.
C22_ZeroHeaderScanned ==
    /\ GoEnded
    /\ ~scan.in.trustHeaders
    /\ scan.in.input = <<"zeroHeader">>
    /\ 1 \in scan.ran

\* add(f, localPath) run on its own: what one file's FileInfo ends as.
ExpectedInfo(kind, trust) ==
    LET file == ScanFile(kind)
        np == Len(file.points)
        header == IF file.preview = {} THEN NewFileInfo(kind)
                  ELSE LET pv == ThePreview(kind)
                       IN  [path |-> kind, numPoints |-> pv.numPoints,
                            bounds |-> IF pv.numPoints = 0 THEN {} ELSE {pv.bounds},
                            srs |-> pv.srs]
        reads == /\ ~trust
                 /\ \A pv \in file.preview : pv.numPoints # 0
    IN  IF ~file.good THEN NewFileInfo(kind)
        ELSE IF reads /\ file.run /\ np # 0
             THEN [header EXCEPT !.numPoints = np,
                                 !.bounds = {StreamedBounds(file.points, np)}]
             ELSE header

\* The files whose scale is merged: those whose header declares points.
Scaled(i) ==
    \E pv \in ScanFile(scan.in.input[i]).preview : pv.numPoints # 0

RECURSIVE MinScale(_)
MinScale(i) ==
    IF i = 0 THEN ScaleOne
    ELSE IF Scaled(i)
         THEN ScaleMin(MinScale(i - 1), PreviewScale(ThePreview(scan.in.input[i])))
         ELSE MinScale(i - 1)

RECURSIVE UnionBounds(_, _)
UnionBounds(info, i) ==
    IF i = 0 THEN Expander
    ELSE IF info[i].numPoints # 0 /\ info[i].bounds # {}
         THEN GrowBounds(UnionBounds(info, i - 1), CHOOSE b \in info[i].bounds : TRUE)
         ELSE UnionBounds(info, i - 1)

C28_GoRunsOnce ==
    /\ [](scan # NoScan /\ scan.calls > 1 =>
            /\ scan.pc = "failed"
            /\ scan.result.kind = "Cannot call Scan::go twice")
    /\ [][(scan.calls >= 1 /\ scan'.calls = scan.calls + 1) =>
            /\ scan'.result.kind = "Cannot call Scan::go twice"
            /\ scan'.pc = "failed"
            /\ scan'.m_fileInfo = scan.m_fileInfo
            /\ scan'.queue = scan.queue
            /\ scan'.task = scan.task
            /\ scan'.ran = scan.ran
            /\ scan'.m_scale = scan.m_scale]_vars

\* go() has been called a second time after a first call that failed with
\* no points found.
C28_CalledTwice ==
    /\ scan.calls = 2
    /\ scan.result.kind = "Cannot call Scan::go twice"
    /\ scan.in.input # << >>
    /\ ScanTotal = 0

(* ------------------------- Registry and Builder ------------------------ *)

\* C23: of the workers that ask for the same absent chunk one becomes its
\* loader and, alone, reads or creates it; a caller that finds the chunk
\* being loaded stays where it is until the load has completed, and leaves
\* fetchOrCreate only with the resident chunk, which its Clipper then
\* references; every caller of fetchOrCreate returns in the end.
C23_OneLoaderOthersWait ==
    /\ [](\A c \in DOMAIN chunks : Cardinality(Loaders(c)) <= 1)
    /\ [][/\ \A w \in Workers :
                /\ (wk[w].pc = "fetch" /\ chunks[CurChunk(w)].state = "loading")
                        => wk'[w] = wk[w]
                /\ (wk[w].pc \in {"fetch", "load"} /\ wk'[w].pc = "cell") =>
                        /\ chunks'[CurChunk(w)].state = "resident"
                        /\ CurChunk(w) \in wk'[w].clipper
                        /\ chunks'[CurChunk(w)].refs = Cardinality({v \in Workers :
                                CurChunk(w) \in wk'[v].clipper})
          /\ \A c \in DOMAIN chunks :
                (chunks[c].state = "loading" /\ chunks'[c].state # "loading") =>
                    /\ chunks'[c].state = "resident"
                    /\ \E w \in Loaders(c) :
                        /\ wk'[w].pc = "cell"
                        /\ \A v \in Workers \ {w} : wk'[v] = wk[v]]_vars
    /\ \A w \in 1 .. getWorkThreads(4) :
            (w \in DOMAIN wk /\ wk[w].pc \in {"fetch", "load"})
                ~> (w \in DOMAIN wk /\ wk[w].pc \notin {"fetch", "load"})

\* Two workers have both left fetchOrCreate with the same chunk, which was
\* created fresh.
C23_BothReceivedChunk ==
    \E c \in DOMAIN chunks :
        /\ Cardinality(Holders(c)) = 2
        /\ chunks[c].refs = 2
        /\ chunks[c].state = "resident"
        /\ c \notin endpoint.chunks
        /\ \A w \in Holders(c) : wk[w].pc = "cell" /\ CurChunk(w) = c

\* The origins whose reader ran to its end and returned true.
ReadInFull == {o \in queued : TaskOver(o) /\ ~(o \in m_manifest.errors)}

\* The z of the placed points of those files.
PlacedZ == {Pt(id)[3] : id \in {x \in Tagged("placed") : x[1] \in ReadInFull}}

SetMin(S) == CHOOSE x \in S : \A y \in S : x <= y
SetMax(S) == CHOOSE x \in S : \A y \in S : x >= y

\* C24: in a 2D build, once join() has returned, the z extent of the bounds
\* runs from the lowest of the configured minimum and the floors of the z of
\* the points placed by the files read in full, to the highest of the
\* configured maximum and their ceilings; the x and y extents are the
\* configured ones; and no step shrinks the z extent.
C24_ZExtentIsUnionOfFileRanges ==
    /\ []((mainPc = "joined" /\ ~Is3d) =>
            /\ m_bbox.min[3] = SetMin({GlobalBounds(FALSE).min[3]}
                                        \cup {Floor2(z) : z \in PlacedZ})
            /\ m_bbox.max[3] = SetMax({GlobalBounds(FALSE).max[3]}
                                        \cup {Ceil2(z) : z \in PlacedZ})
            /\ m_bbox.min[1] = GlobalBounds(FALSE).min[1]
            /\ m_bbox.min[2] = GlobalBounds(FALSE).min[2]
            /\ m_bbox.max[1] = GlobalBounds(FALSE).max[1]
            /\ m_bbox.max[2] = GlobalBounds(FALSE).max[2])
    /\ [][~Is3d => /\ m_bbox'.min[3] <= m_bbox.min[3]
                   /\ m_bbox'.max[3] >= m_bbox.max[3]]_vars

\* A 2D build joined after two files were read in full, one of them with
\* placed points above the configured z extent.
C24_JoinedWithGrownZ ==
    /\ mainPc = "joined"
    /\ ~Is3d
    /\ Cardinality(ReadInFull) = 2
    /\ \E z \in PlacedZ : z > GlobalBounds(FALSE).max[3]
    /\ \E z \in PlacedZ : z < GlobalBounds(FALSE).max[3]
    /\ m_bbox.max[3] > GlobalBounds(FALSE).max[3]


\* ---- merge(): the ids of the merged metadata ----

\* The ids the metadata of the segments name.
SegmentIds ==
    UNION {{IdOfString(subsets[k].meta.ids[i]) : i \in DOMAIN subsets[k].meta.ids} :
           k \in DOMAIN subsets}

\* C25: after merge() the "ids" array written under the key entwine names
\* exactly the ids the arrays of the subsets name, each once, in ascending
\* order of the ids and as the decimal string of the id, and the structure
\* written with it carries no subset marker.
C25_MergedIdsAreSortedUnion ==
    mainPc = "merged" =>
        LET jsonIds == endpoint.meta.ids
        IN  /\ {IdOfString(jsonIds[i]) : i \in DOMAIN jsonIds} = SegmentIds
            /\ Len(jsonIds) = Cardinality(SegmentIds)
            /\ \A i, j \in DOMAIN jsonIds :
                    i < j => IdOfString(jsonIds[i]) < IdOfString(jsonIds[j])
            /\ \A i \in DOMAIN jsonIds : jsonIds[i] = IdStr(IdOfString(jsonIds[i]))
            /\ endpoint.meta.props.structure.subset = NoSubset
            /\ m_structure.subset = NoSubset

\* C25 witness: a merge of subsets that name five cold chunks, one of them
\* named by two subsets, has written its metadata.
C25_MergedOverlappingIds ==
    /\ mainPc = "merged"
    /\ Cardinality(SegmentIds) = 5
    /\ \E k, l \in DOMAIN subsets :
            /\ k # l
            /\ \E i \in DOMAIN subsets[k].meta.ids, j \in DOMAIN subsets[l].meta.ids :
                    subsets[k].meta.ids[i] = subsets[l].meta.ids[j]
    /\ Len(endpoint.meta.ids) = 5


\* ---- save(): the order of the writes ----

\* C26 as stated: no base chunk is at the endpoint before the metadata has
\* been written there.
C26_MetadataBeforeBaseChunk == BaseId \in endpoint.chunks => endpoint.meta.written

\* C26: save() writes the base chunk in m_registry->save, with the pool
\* joined and before the metadata; the metadata is put afterwards, by a step
\* that writes no chunk, so that metadata at the endpoint always has its
\* base chunk beside it.
C26_BaseChunkBeforeMetadata ==
    /\ [](endpoint.meta.written => BaseId \in endpoint.chunks)
    /\ [][endpoint'.meta # endpoint.meta =>
            /\ mainPc = "saving"
            /\ BaseId \in endpoint.chunks
            /\ endpoint'.chunks = endpoint.chunks
            /\ endpoint'.cells = endpoint.cells]_vars
    /\ [][(BaseId \in endpoint'.chunks /\ BaseId \notin endpoint.chunks) =>
            /\ mainPc = "joined"
            /\ ~m_pool.running
            /\ endpoint'.meta = endpoint.meta]_vars

\* C26 witness: a save() of a build that stored a point in the base chunk
\* has returned, with the base chunk and the metadata at the endpoint.
C26_SavedBaseAndMetadata ==
    /\ saves > 0
    /\ mainPc = "ready"
    /\ endpoint.meta.written
    /\ BaseId \in endpoint.chunks
    /\ \E n \in DOMAIN endpoint.cells :
            ChunkIdOf(Is3d, n) = BaseId /\ endpoint.cells[n] # NoPoint


\* ---- sleepCount across the Builders of a process ----

\* C29 as stated: every constructed Builder whose work pool has one thread
\* has sleepCount at the single-thread value, and every Builder with more
\* threads has it at the default, whichever Builders came before.
C29_SleepCountFollowsThreads ==
    mainPc # "constructing" =>
        sleepCount = (IF Cardinality(DOMAIN wk) = 1
                      THEN SleepCountSingle ELSE SleepCountMulti)

\* What holds: a Builder with one work thread has the single-thread value,
\* and sleepCount never returns to the default once it was raised.
C29_SleepCountOnlyRaised ==
    /\ []((mainPc # "constructing" /\ Cardinality(DOMAIN wk) = 1)
            => sleepCount = SleepCountSingle)
    /\ [][sleepCount = SleepCountSingle => sleepCount' = SleepCountSingle]_vars

\* A Builder with more than one work thread that was constructed after a
\* Builder with one work thread.
C29_MultiAfterSingle ==
    /\ mainPc # "constructing"
    /\ Cardinality(DOMAIN wk) > 1
    /\ sleepCount = SleepCountSingle


\* ---- insert(path): origins and tasks ----

\* C30 as stated: a call of insert(path) that adds an origin to the manifest
\* queues one task for that origin and returns true, and every origin of
\* the manifest has had its task queued.
C30_EveryOriginHasTask ==
    /\ [](\A o \in 0 .. (Len(m_manifest.paths) - 1) : o \in queued)
    /\ [][Len(m_manifest'.paths) > Len(m_manifest.paths) =>
            /\ Len(m_pool'.queue) = Len(m_pool.queue) + 1
            /\ m_pool'.queue[Len(m_pool'.queue)].origin = Len(m_manifest.paths)
            /\ lastCall'.ret = "true"]_vars

\* What holds: every origin but origin 0 has its task queued by the call
\* that adds it, and origin 0 too whenever that call returns.
C30_OriginHasTaskUnlessInferThrows ==
    /\ [](\A o \in 1 .. (Len(m_manifest.paths) - 1) : o \in queued)
    /\ [][(Len(m_manifest'.paths) > Len(m_manifest.paths) /\ lastCall'.ret # "throw") =>
            /\ Len(m_pool'.queue) = Len(m_pool.queue) + 1
            /\ m_pool'.queue[Len(m_pool'.queue)].origin = Len(m_manifest.paths)
            /\ lastCall'.ret = "true"]_vars
    /\ [][lastCall'.ret = "throw" /\ lastCall' # lastCall => Len(m_manifest.paths) = 0]_vars

\* The reader run of infer failed for the first file: origin 0 is in the
\* manifest, no task was queued for it, no error is recorded and the
\* Builder still has no bounds.
C30_OriginWithoutTask ==
    /\ Len(m_manifest.paths) > 0
    /\ 0 \notin queued
    /\ m_pool.queue = << >>
    /\ m_manifest.errors = {}
    /\ lastCall.ret = "throw"
    /\ m_bbox = Null


\* ---- SleepyTree::fetchAndWriteFile ----

FetchOver == fetch.pc \in {"returned", "thrown"}
AllFailed == Len(fetch.gets) = httpAttempts /\ \A i \in DOMAIN fetch.gets : fetch.gets[i] # 200

\* C31 as stated: at most 3 GETs, none after a 200, the local file written
\* only after a 200, and the call throws exactly when 3 GETs were answered
\* with a code other than 200.
C31_ThrowsOnlyAfterThreeFailures ==
    /\ Len(fetch.gets) <= httpAttempts
    /\ \A i \in DOMAIN fetch.gets : fetch.gets[i] = 200 => i = Len(fetch.gets)
    /\ fetch.writes > 0 => fetch.res = 200
    /\ FetchOver => (fetch.pc = "thrown" <=> AllFailed)

\* C31: at most 3 GETs, none after a 200; the one write of the local file
\* comes after a 200 and the file holds the data of that response; the call
\* throws "Couldn't fetch" exactly when 3 GETs were answered with a code
\* other than 200, and otherwise throws only "Couldn't write", when
\* fs::writeFile answers false.
C31_FetchRetriesAndWrites ==
    /\ Len(fetch.gets) <= httpAttempts
    /\ fetch.tries <= httpAttempts
    /\ \A i \in DOMAIN fetch.gets : fetch.gets[i] = 200 => i = Len(fetch.gets)
    /\ fetch.writes <= 1
    /\ fetch.writes > 0 => (fetch.res = 200 /\ FetchOver)
    /\ \A f \in fetch.file :
          /\ f.code = 200
          /\ f.get = Len(fetch.gets)
          /\ f.path = LocalPath(fetch.origin)
    /\ FetchOver =>
          /\ (fetch.result.kind = "Couldn't fetch" <=> AllFailed)
          /\ AllFailed => (fetch.writes = 0 /\ fetch.file = {})
          /\ fetch.pc = "thrown" <=> fetch.result.kind \in {"Couldn't fetch", "Couldn't write"}
          /\ fetch.result.kind = "Couldn't write" => (fetch.res = 200 /\ fetch.file = {})
          /\ fetch.pc = "returned" => (fetch.res = 200 /\ fetch.file # {})

\* C31 witness: the third GET was answered with 200 after two failures, the
\* local file was written and the call returned its path.
C31_FetchedAtThirdAttempt ==
    /\ fetch.pc = "returned"
    /\ Len(fetch.gets) = httpAttempts
    /\ fetch.gets[1] # 200 /\ fetch.gets[2] # 200 /\ fetch.gets[3] = 200
    /\ fetch.file # {}


\* ---- insert(view): the info records of a batch ----

\* The cells that own a record.
OwnersIn(cs, info) == {n \in DOMAIN cs : cs[n] = info}

\* The records of the batch a worker has in hand.
BatchInfos(w) == {<<wk[w].origin, wk[w].batch, i>> : i \in 1 .. Len(CurBatch(w))}

\* insert(view) returns in this step.
InsertViewReturns(w) ==
    /\ w \in DOMAIN wk
    /\ wk[w].pc \in {"point", "cell"}
    /\ wk'[w].pc = "batchEnd"

\* C32: when insert(view) returns, each record acquired for the batch is
\* either owned by exactly one cell and not returned to the pool, which is
\* the case exactly for a placed point, or owned by no cell and returned to
\* the pool exactly once, which is the case for a point out of bounds,
\* outside the subset bounds or fallen through; no record stays on a stack
\* of the call, and no record is ever returned twice or returned while a
\* cell owns it.
C32_InfoOwnedOrReturnedOnce ==
    /\ [][\A w \in 1 .. getWorkThreads(4) :
            InsertViewReturns(w) =>
                /\ wk'[w].infoStack = << >>
                /\ wk'[w].rejected = << >>
                /\ \A info \in BatchInfos(w) :
                      /\ \/ /\ Cardinality(OwnersIn(cells', info)) = 1
                            /\ TimesReturned(infoPool', info) = 0
                            /\ <<info, "placed">> \in outcome'
                         \/ /\ OwnersIn(cells', info) = {}
                            /\ TimesReturned(infoPool', info) = 1
                            /\ \E t \in {"outOfBounds", "outOfSubset", "fallThrough"} :
                                  <<info, t>> \in outcome']_vars
    /\ [](\A info \in DOMAIN infoPool :
            /\ infoPool[info] = 1
            /\ OwnersIn(cells, info) = {}
            /\ <<info, "placed">> \notin outcome)

\* C32 witness: insert(view) has returned from a batch of which one record
\* is owned by a cell and another was returned to the pool.
C32_BatchPlacedAndRejected ==
    \E w \in DOMAIN wk :
        /\ wk[w].pc = "batchEnd"
        /\ \E info \in BatchInfos(w) : OwnersIn(cells, info) # {}
        /\ \E info \in BatchInfos(w) : TimesReturned(infoPool, info) = 1

====
